---- MODULE Spec2Model ----
(***************************************************************************)
(* A model of the Alist file-manager plugin (src/main.py): the layered     *)
(* configuration (WebUI settings, per-user JSON files), the file cache     *)
(* (CacheManager), the per-user navigation state and the command handlers  *)
(* that drive them.                                                        *)
(*                                                                         *)
(* Python strings are modelled as sequences of one-character strings, so   *)
(* that rstrip, startswith, split, str.isdigit, int() and f-string         *)
(* concatenation are computed, not assumed.  The empty string is << >>.    *)
(* Python's None is the record None; a dict is a record or a function.     *)
(***************************************************************************)
EXTENDS Integers, Sequences, FiniteSets, TLC

VARIABLES
    webui,      \* self.config["global_settings"]: the WebUI (administrator) settings
    userFiles,  \* users/<user_id>.json: user id -> stored dict (files that exist)
    cache,      \* cache/<key>.json: key -> [mtime, data] (files that exist)
    now,        \* time.time(), in whole seconds
    nav,        \* self.user_navigation_state: user id -> navigation dict
    tasks,      \* handlers suspended at an await (network call in flight)
    ev,         \* the last step taken and what it answered (observation)
    scen,       \* progress of the "ls /, ls 2, quit, quit" scenario (observation)
    lastSet,    \* key -> time and data of the latest set_cache for it (observation)
    putSince,   \* keys of cached listings a file was put into since (observation)
    upload,     \* self.user_upload_state: user id -> [waiting, target_path]
    tempFiles,  \* downloads/<name>: the temporary files that exist
    waitId      \* user id -> how many times the user started upload mode (observation)

vars == <<webui, userFiles, cache, now, nav, tasks, ev, scen, lastSet, putSince, upload,
         tempFiles, waitId>>

confVars == <<webui, userFiles>>
cacheVars == <<cache, lastSet, putSince>>
navVars == <<nav, tasks, scen>>
sideVars == <<upload, tempFiles, waitId>>

None == [none |-> TRUE]

(***************************************************************************)
(* Python string and list primitives                                       *)
(***************************************************************************)

\* s.startswith(p)
StartsWith(s, p) == Len(p) <= Len(s) /\ SubSeq(s, 1, Len(p)) = p

\* s.endswith(p)
EndsWith(s, p) == Len(p) <= Len(s) /\ SubSeq(s, Len(s) - Len(p) + 1, Len(s)) = p

\* s.rstrip(c): s without its trailing run of the character c
RECURSIVE RStrip(_, _)
RStrip(s, c) ==
    IF s # << >> /\ s[Len(s)] = c THEN RStrip(SubSeq(s, 1, Len(s) - 1), c) ELSE s

Digits == {"0", "1", "2", "3", "4", "5", "6", "7", "8", "9"}

DigitValue(c) ==
    CASE c = "0" -> 0 [] c = "1" -> 1 [] c = "2" -> 2 [] c = "3" -> 3 [] c = "4" -> 4
      [] c = "5" -> 5 [] c = "6" -> 6 [] c = "7" -> 7 [] c = "8" -> 8 [] c = "9" -> 9

\* str.isdigit(): non-empty and every character a digit
IsDigit(s) == s # << >> /\ \A i \in 1..Len(s) : s[i] \in Digits

\* int(s) for a string of digits
RECURSIVE DigitsToInt(_)
DigitsToInt(s) ==
    IF s = << >> THEN 0
    ELSE 10 * DigitsToInt(SubSeq(s, 1, Len(s) - 1)) + DigitValue(s[Len(s)])

\* int(s): [ok |-> TRUE, val |-> n] for an optionally signed string of digits,
\* [ok |-> FALSE] where Python raises ValueError
PyInt(s) ==
    IF IsDigit(s) THEN [ok |-> TRUE, val |-> DigitsToInt(s)]
    ELSE IF Len(s) > 1 /\ s[1] = "-" /\ IsDigit(Tail(s))
         THEN [ok |-> TRUE, val |-> 0 - DigitsToInt(Tail(s))]
    ELSE IF Len(s) > 1 /\ s[1] = "+" /\ IsDigit(Tail(s))
         THEN [ok |-> TRUE, val |-> DigitsToInt(Tail(s))]
    ELSE [ok |-> FALSE]

\* s.split(sep) for a one-character separator: the pieces between separators
RECURSIVE SplitAcc(_, _, _)
SplitAcc(s, sep, piece) ==
    IF s = << >> THEN <<piece>>
    ELSE IF Head(s) = sep THEN <<piece>> \o SplitAcc(Tail(s), sep, << >>)
    ELSE SplitAcc(Tail(s), sep, Append(piece, Head(s)))

Split(s, sep) == SplitAcc(s, sep, << >>)

\* seq[i] with Python's indexing: 0-based, a negative i counts from the end
PyIndex(seq, i) == IF i >= 0 THEN seq[i + 1] ELSE seq[Len(seq) + i + 1]

\* seq[:n] read as the whole list.
PyTake_All(seq, n) == seq

\* seq[:n] for n >= 0
PyTake(seq, n) == SubSeq(seq, 1, IF n < Len(seq) THEN n ELSE Len(seq))

\* d.get(key, default) on a dict modelled as a function
DictGet(d, key, default) == IF key \in DOMAIN d THEN d[key] ELSE default

\* d[key] = value on a dict modelled as a function
DictSet(d, key, value) == [k \in DOMAIN d \cup {key} |-> IF k = key THEN value ELSE d[k]]

\* del d[key]
DictDel(d, key) == [k \in DOMAIN d \ {key} |-> d[k]]

\* Python truthiness of a string (a missing key's None is modelled as "")
Truthy(s) == s # << >>

(***************************************************************************)
(* Users and the strings they type                                         *)
(***************************************************************************)

U1 == <<"u">>
U2 == <<"7">>
Users == {U1, U2}

URL_X == <<"x">>        \* a server URL a user configures
URL_G == <<"g">>        \* the administrator's default server URL
STR_P == <<"p">>        \* a user name, password or token a user configures
STR_Q == <<"q">>        \* the administrator's default user name, password, token

(***************************************************************************)
(* Configuration: WebUI settings, per-user files, get_user_config          *)
(***************************************************************************)

\* AlistFilePlugin.get_webui_config
GetWebuiConfig(w, key, default) == DictGet(w, key, default)

DefaultExtensionsStr ==
    <<".", "t", "x", "t", ",", ".", "p", "d", "f", ",", ".", "d", "o", "c", ",",
      ".", "d", "o", "c", "x", ",", ".", "z", "i", "p", ",", ".", "r", "a", "r", ",",
      ".", "j", "p", "g", ",", ".", "p", "n", "g", ",", ".", "g", "i", "f", ",",
      ".", "m", "p", "4", ",", ".", "m", "p", "3">>

DefaultExtensionsList ==
    << <<".", "t", "x", "t">>, <<".", "p", "d", "f">>, <<".", "d", "o", "c">>,
       <<".", "d", "o", "c", "x">>, <<".", "z", "i", "p">>, <<".", "r", "a", "r">>,
       <<".", "j", "p", "g">>, <<".", "p", "n", "g">>, <<".", "g", "i", "f">>,
       <<".", "m", "p", "4">>, <<".", "m", "p", "3">> >>

DefaultMaxDisplayFiles == 20

\* UserConfigManager.default_config
UserDefaultConfig ==
    [alist_url |-> << >>, username |-> << >>, password |-> << >>, token |-> << >>,
     max_display_files |-> DefaultMaxDisplayFiles,
     allowed_extensions |-> DefaultExtensionsList,
     enable_preview |-> TRUE, setup_completed |-> FALSE]

\* UserConfigManager.load_config: the defaults updated with the stored file
LoadConfig(files, u) ==
    IF u \in DOMAIN files
    THEN [k \in DOMAIN UserDefaultConfig \cup DOMAIN files[u] |->
             IF k \in DOMAIN files[u] THEN files[u][k] ELSE UserDefaultConfig[k]]
    ELSE UserDefaultConfig

\* UserConfigManager.save_config
SaveConfig(files, u, config) == DictSet(files, u, config)

\* UserConfigManager.is_configured:
\*   config.get("setup_completed", False) and bool(config.get("alist_url"))
IsConfigured(files, u) ==
    LET config == LoadConfig(files, u) IN
    DictGet(config, "setup_completed", FALSE) /\ Truthy(DictGet(config, "alist_url", << >>))

\* A WebUI allowed_extensions value is a string ([str |-> chars]) or a list
\* ([list |-> seq]); get_user_config splits a string at the commas.
ExtensionsOf(v) == IF "str" \in DOMAIN v THEN Split(v.str, ",") ELSE v.list

\* Lines 475-482 with a default that always wins (the layers swapped).
PreferUser_DefaultWins(user_value, default) ==
    IF Truthy(default) THEN default ELSE user_value

\* if not user_config.get(k) and default_k: user_config[k] = default_k
PreferUser(user_value, default) ==
    IF ~Truthy(user_value) /\ Truthy(default) THEN default ELSE user_value

\* Lines 484-491 left out: the user's stored display settings survive.
OverrideWithWebui_Skipped(user_config, max_display_files, allowed_extensions, enable_preview) ==
    user_config

\* The WebUI values written over the user's display settings.
OverrideWithWebui(user_config, max_display_files, allowed_extensions, enable_preview) ==
    [user_config EXCEPT !.max_display_files = max_display_files,
                        !.allowed_extensions = allowed_extensions,
                        !.enable_preview = enable_preview]

\* The isolation switch read as always on.
RequireUserAuth_AlwaysOn(w) == TRUE

\* require_user_auth = self.get_webui_config("require_user_auth", True)
RequireUserAuth(w) == GetWebuiConfig(w, "require_user_auth", TRUE)

\* AlistFilePlugin.get_user_config
GetUserConfig(w, files, u) ==
    LET default_alist_url  == GetWebuiConfig(w, "default_alist_url", << >>)
        default_username   == GetWebuiConfig(w, "default_username", << >>)
        default_password   == GetWebuiConfig(w, "default_password", << >>)
        default_token      == GetWebuiConfig(w, "default_token", << >>)
        max_display_files  == GetWebuiConfig(w, "max_display_files", DefaultMaxDisplayFiles)
        allowed_extensions == GetWebuiConfig(w, "allowed_extensions",
                                             [str |-> DefaultExtensionsStr])
        enable_preview     == GetWebuiConfig(w, "enable_preview", TRUE)
        user_config        == LoadConfig(files, u)
    IN  IF RequireUserAuth(w)
        THEN OverrideWithWebui(
                 [user_config EXCEPT
                    !.alist_url = PreferUser(DictGet(user_config, "alist_url", << >>),
                                             default_alist_url),
                    !.username = PreferUser(DictGet(user_config, "username", << >>),
                                            default_username),
                    !.password = PreferUser(DictGet(user_config, "password", << >>),
                                            default_password),
                    !.token = PreferUser(DictGet(user_config, "token", << >>),
                                         default_token)],
                 max_display_files, ExtensionsOf(allowed_extensions), enable_preview)
        ELSE [alist_url |-> default_alist_url, username |-> default_username,
              password |-> default_password, token |-> default_token,
              max_display_files |-> max_display_files,
              allowed_extensions |-> ExtensionsOf(allowed_extensions),
              enable_preview |-> enable_preview]

\* A validation that lets every configuration through.
ValidateConfig_Always(user_config) == TRUE

\* AlistFilePlugin._validate_config
ValidateConfig(user_config) == Truthy(DictGet(user_config, "alist_url", << >>))

\* config set: the keys a user may set
ValidKeys == {"alist_url", "username", "password", "token", "max_display_files"}

MinDisplayFiles == 1
MaxDisplayFiles == 100

\* Line 1038 without the test of the key: any successful set marks the setup done.
MarksSetup_AnyKey(key, value) == TRUE

\* if key == "alist_url" and value: user_config["setup_completed"] = True
\* (value is the string typed; for the other keys the test of the key decides)
MarksSetup(key, value) == key = "alist_url" /\ Truthy(value)

\* config_command, action == "set": [out |-> the answer, files |-> the user files after]
ConfigSetResult(files, u, key, value) ==
    LET user_config == LoadConfig(files, u)
        n == PyInt(value)
        stored == IF key = "max_display_files" THEN n.val ELSE value
        updated == DictSet(user_config, key, stored)
        marked == IF MarksSetup(key, value)
                  THEN DictSet(updated, "setup_completed", TRUE) ELSE updated
    IN  IF key = "" THEN [out |-> "no_key", files |-> files]
        ELSE IF ~Truthy(value) THEN [out |-> "no_value", files |-> files]
        ELSE IF key \notin ValidKeys THEN [out |-> "unknown_key", files |-> files]
        ELSE IF key = "max_display_files" /\ ~n.ok
             THEN [out |-> "not_a_number", files |-> files]
        ELSE IF key = "max_display_files" /\ (n.val < MinDisplayFiles \/ n.val > MaxDisplayFiles)
             THEN [out |-> "out_of_range", files |-> files]
        ELSE [out |-> "ok", files |-> SaveConfig(files, u, marked)]

\* config_command, action == "show": the dict displayed, secrets masked, the
\* internal setup_completed key left out
Masked(s) == IF Truthy(s) THEN <<"*", "*", "*">> ELSE s

ConfigShown(w, files, u) ==
    LET user_config == GetUserConfig(w, files, u)
        safe_config == [user_config EXCEPT !.password = Masked(user_config.password),
                                           !.token = Masked(user_config.token)]
    IN  [k \in DOMAIN safe_config \ {"setup_completed"} |-> safe_config[k]]

(***************************************************************************)
(* Remote listings (the data the cache stores and the navigation indexes)  *)
(***************************************************************************)

DirA  == [name |-> <<"a">>, is_dir |-> TRUE, size |-> 0]
DirB  == [name |-> <<"b">>, is_dir |-> TRUE, size |-> 0]
DirC  == [name |-> <<"c">>, is_dir |-> TRUE, size |-> 0]
FileD == [name |-> <<"d">>, is_dir |-> FALSE, size |-> 1]
FileE == [name |-> <<"e">>, is_dir |-> FALSE, size |-> 2]

\* The "data" object of a /api/fs/list answer: its "content" is a JSON list
\* ([list |-> entries]) or JSON null ([null |-> TRUE]).
ListData(entries) == [content |-> [list |-> entries]]
NullData == [content |-> [null |-> TRUE]]

(***************************************************************************)
(* CacheManager                                                            *)
(***************************************************************************)

\* CacheManager._get_cache_key: md5(f"{url}:{path}:{user_id}").  The digest is
\* modelled as an injective tag on the digested text (no digest collisions).
GetCacheKey(url, path, user_id) == [md5 |-> url \o <<":">> \o path \o <<":">> \o user_id]

\* Line 305 without the test of the age: a record is served however old.
IsStale_Never(mtime, t, max_age) == FALSE

\* time.time() - os.path.getmtime(cache_file) > max_age
IsStale(mtime, t, max_age) == t - mtime > max_age

\* CacheManager.get_cache: [result |-> data or None, cache |-> the files after]
GetCache(c, t, url, path, user_id, max_age) ==
    LET cache_key == GetCacheKey(url, path, user_id) IN
    IF cache_key \notin DOMAIN c THEN [result |-> None, cache |-> c]
    ELSE IF IsStale(c[cache_key].mtime, t, max_age)
         THEN [result |-> None, cache |-> DictDel(c, cache_key)]
    ELSE [result |-> c[cache_key].data, cache |-> c]

\* set_cache that does not replace a file that already exists.
SetCache_KeepsOld(c, t, url, path, user_id, data) ==
    LET cache_key == GetCacheKey(url, path, user_id) IN
    IF cache_key \in DOMAIN c THEN c ELSE DictSet(c, cache_key, [mtime |-> t, data |-> data])

\* CacheManager.set_cache: the file is (re)written, its mtime is the time of writing
SetCache(c, t, url, path, user_id, data) ==
    DictSet(c, GetCacheKey(url, path, user_id), [mtime |-> t, data |-> data])

TEST == <<"t", "e", "s", "t">>

\* user_id in test_key, for test_key = md5("test:test:" + user_id) in hex:
\*   md5("test:test:u") = b10efb136c4d8593985cc9382b785a27 holds no "u",
\*   md5("test:test:7") = bcb1a9a975d9399f16d0f0e6b147104c holds a "7".
UserIdInTestKey(user_id) == user_id = U2

\* cache_key.startswith(test_key[:8]): two digests share their first 8 hex
\* digits only when they are digests of the same text.
StartsWithTestPrefix(cache_key, test_key) == cache_key = test_key

\* CacheManager.clear_cache: user_id "" stands for None (both are falsy)
ClearCache(c, user_id) ==
    IF Truthy(user_id)
    THEN LET test_key == GetCacheKey(TEST, TEST, user_id)
             removed == {k \in DOMAIN c :
                            UserIdInTestKey(user_id) \/ StartsWithTestPrefix(k, test_key)}
         IN  [k \in DOMAIN c \ removed |-> c[k]]
    ELSE [k \in {} |-> c[k]]

\* The observation of set_cache: the time and the data of the latest set.
NoteSet(ls, t, url, path, user_id, data) ==
    DictSet(ls, GetCacheKey(url, path, user_id), [at |-> t, data |-> data])

\* The observation of a put into a directory: its key is noted when the
\* cache holds a listing of it.
NotePut(ps, c, url, path, user_id) ==
    ps \cup ({GetCacheKey(url, path, user_id)} \cap DOMAIN c)

\* The noted keys whose files are still in the cache.
StillCached(ps, c) == ps \cap DOMAIN c

(***************************************************************************)
(* Navigation state                                                        *)
(***************************************************************************)

SLASH == <<"/">>

\* The dict _get_user_navigation_state creates on a user's first use.
FreshNav == [current_path |-> SLASH, items |-> << >>, parent_paths |-> << >>]

\* AlistFilePlugin._get_user_navigation_state: the map after the call (the
\* user's dict is created when missing); the dict returned is the map's [user_id]
GetUserNavigationState(ns, user_id) ==
    IF user_id \in DOMAIN ns THEN ns ELSE DictSet(ns, user_id, FreshNav)

\* Any change of path counts as forward navigation.
IsForwardNavigation_Always(current_path, new_path) == TRUE

\* AlistFilePlugin._is_forward_navigation
IsForwardNavigation(current_path, new_path) ==
    LET current == RStrip(current_path, "/")
        new == RStrip(new_path, "/")
    IN  IF current # SLASH THEN StartsWith(new, current \o SLASH)
        ELSE StartsWith(new, SLASH)

\* AlistFilePlugin._update_user_navigation_state: the map after the call
UpdateUserNavigationState(ns, user_id, path, items) ==
    LET ns1 == GetUserNavigationState(ns, user_id)
        nav_state == ns1[user_id]
        pushed == IF IsForwardNavigation(nav_state.current_path, path)
                  THEN Append(nav_state.parent_paths, nav_state.current_path)
                  ELSE nav_state.parent_paths
    IN  IF path # nav_state.current_path
        THEN [ns1 EXCEPT ![user_id] =
                 [current_path |-> path, items |-> items, parent_paths |-> pushed]]
        ELSE [ns1 EXCEPT ![user_id].items = items]

\* _get_item_by_number with the numbers taken as 0-based positions.
GetItemByNumber_ZeroBased(ns, user_id, number) ==
    LET items == GetUserNavigationState(ns, user_id)[user_id].items IN
    IF 0 <= number /\ number < Len(items) THEN PyIndex(items, number) ELSE None

\* AlistFilePlugin._get_item_by_number
GetItemByNumber(ns, user_id, number) ==
    LET items == GetUserNavigationState(ns, user_id)[user_id].items IN
    IF 1 <= number /\ number <= Len(items) THEN PyIndex(items, number - 1) ELSE None

\* The two comprehensions without their filter: the answer's order is kept.
SelectSeq2_Unfiltered(seq, wantDir) == IF wantDir THEN seq ELSE << >>

\* [f for f in files if f.get("is_dir", False)] and its complement
RECURSIVE SelectSeq2(_, _)
SelectSeq2(seq, wantDir) ==
    IF seq = << >> THEN << >>
    ELSE IF Head(seq).is_dir = wantDir THEN <<Head(seq)>> \o SelectSeq2(Tail(seq), wantDir)
    ELSE SelectSeq2(Tail(seq), wantDir)

\* "not files" for the content of a listing: null and the empty list are falsy
ContentFalsy(content) == "null" \in DOMAIN content \/ content.list = << >>

\* AlistFilePlugin._format_file_list, as far as it changes state: the map after
\* the call.  It returns before the update when the listing is empty.
FormatFileList(ns, content, current_path, user_config, user_id) ==
    IF ContentFalsy(content) \/ ~Truthy(user_id) THEN ns
    ELSE LET dirs == SelectSeq2(content.list, TRUE)
             files_only == SelectSeq2(content.list, FALSE)
             all_items == dirs \o files_only
             max_files == DictGet(user_config, "max_display_files", DefaultMaxDisplayFiles)
         IN  UpdateUserNavigationState(ns, user_id, current_path,
                                       PyTake(all_items, max_files))

\* f"{current_path}{name}" or f"{current_path}/{name}" (lines 1109-1112, 685-688)
JoinPath(current_path, name) ==
    IF EndsWith(current_path, SLASH) THEN current_path \o name
    ELSE current_path \o SLASH \o name

\* parent_paths.pop() taken from the wrong end.
PopParent_Oldest(parent_paths) ==
    [previous_path |-> Head(parent_paths), rest |-> Tail(parent_paths)]

\* nav_state["parent_paths"].pop(): the last element and the list without it
PopParent(parent_paths) ==
    [previous_path |-> parent_paths[Len(parent_paths)],
     rest |-> SubSeq(parent_paths, 1, Len(parent_paths) - 1)]

(***************************************************************************)
(* Inputs of the configuration commands                                    *)
(***************************************************************************)

\* What the administrator may have put in the WebUI settings.
WebuiChoices ==
    { << >>,
      [default_alist_url |-> URL_G, default_username |-> STR_Q,
       max_display_files |-> 7, enable_preview |-> FALSE,
       allowed_extensions |-> [str |-> <<".", "a", ",", ".", "b">>]],
      [require_user_auth |-> FALSE, default_alist_url |-> URL_G,
       default_token |-> STR_Q, max_display_files |-> 7,
       allowed_extensions |-> [list |-> << <<".", "a">> >>]] }

\* <<key, value>> pairs typed after "config set"
ConfigSetInputs ==
    { <<"alist_url", URL_X>>, <<"alist_url", << >> >>, <<"username", STR_P>>,
      <<"password", STR_P>>, <<"token", STR_P>>,
      <<"max_display_files", <<"5">> >>, <<"max_display_files", <<"0">> >>,
      <<"max_display_files", <<"1", "0", "1">> >>, <<"max_display_files", <<"n">> >>,
      <<"enable_preview", STR_P>>, <<"", STR_P>> }

\* The second user types fewer of them (this keeps the state space small).
ConfigSetInputsOf(u) ==
    IF u = U1 THEN ConfigSetInputs
    ELSE { <<"alist_url", URL_X>>, <<"username", STR_P>>, <<"max_display_files", <<"5">> >> }

(***************************************************************************)
(* The configuration commands as steps                                     *)
(***************************************************************************)

\* /alist config set <key> <value>
ConfigSet(u, key, value) ==
    LET r == ConfigSetResult(userFiles, u, key, value) IN
    /\ userFiles' = r.files
    /\ ev' = [op |-> "config_set", user |-> u, key |-> key, value |-> value, out |-> r.out]
    /\ UNCHANGED <<webui, now, cacheVars, navVars, sideVars>>

\* /alist config show
ConfigShow(u) ==
    /\ ev' = [op |-> "config_show", user |-> u, shown |-> ConfigShown(webui, userFiles, u)]
    /\ UNCHANGED <<confVars, now, cacheVars, navVars, sideVars>>

NoEvent == [op |-> "init"]

InitConfig ==
    /\ webui \in WebuiChoices
    /\ userFiles = << >>
    /\ cache = << >>
    /\ now = 0
    /\ nav = << >>
    /\ tasks = {}
    /\ ev = NoEvent
    /\ scen = 0
    /\ lastSet = << >>
    /\ putSince = {}
    /\ upload = << >>
    /\ tempFiles = {}
    /\ waitId = [u \in Users |-> 0]

NextConfig ==
    \E u \in Users :
        \/ \E kv \in ConfigSetInputsOf(u) : ConfigSet(u, kv[1], kv[2])
        \/ ConfigShow(u)

\* The configuration commands of two users under each WebUI setting.
SpecConfig == InitConfig /\ [][NextConfig]_vars

(***************************************************************************)
(* The cache driven through its interface                                  *)
(***************************************************************************)

ROOT == <<"/">>
PATH_A == <<"/", "a">>

MaxTime == 2

\* (url, path, user_id) triples the cache is called with
CacheKeyInputs == { <<URL_X, ROOT, U1>>, <<URL_X, ROOT, U2>>, <<URL_X, PATH_A, U1>> }

\* max_age arguments of get_cache
CacheMaxAges == {1, 3}

\* data arguments of set_cache
CacheDatas == { ListData(<<FileD, DirA>>), ListData(<< >>) }

\* cache_manager.get_cache(url, path, user_id, max_age)
CacheGetStep(url, path, user_id, max_age) ==
    LET r == GetCache(cache, now, url, path, user_id, max_age) IN
    /\ cache' = r.cache
    /\ putSince' = StillCached(putSince, r.cache)
    /\ ev' = [op |-> "cache_get", key |-> GetCacheKey(url, path, user_id),
              max_age |-> max_age, result |-> r.result,
              triple |-> <<url, path, user_id>>]
    /\ UNCHANGED <<confVars, now, lastSet, navVars, sideVars>>

\* cache_manager.set_cache(url, path, user_id, data)
CacheSetStep(url, path, user_id, data) ==
    /\ cache' = SetCache(cache, now, url, path, user_id, data)
    /\ lastSet' = NoteSet(lastSet, now, url, path, user_id, data)
    /\ putSince' = putSince \ {GetCacheKey(url, path, user_id)}
    /\ ev' = [op |-> "cache_set", key |-> GetCacheKey(url, path, user_id), data |-> data,
              triple |-> <<url, path, user_id>>]
    /\ UNCHANGED <<confVars, now, navVars, sideVars>>

\* cache_manager.clear_cache(user_id); user_id = "" is clear_cache(None)
CacheClearStep(user_id) ==
    /\ cache' = ClearCache(cache, user_id)
    /\ putSince' = StillCached(putSince, ClearCache(cache, user_id))
    /\ ev' = [op |-> "cache_clear", user |-> user_id]
    /\ UNCHANGED <<confVars, now, lastSet, navVars, sideVars>>

\* A second passes.
Tick ==
    /\ now < MaxTime
    /\ now' = now + 1
    /\ ev' = [op |-> "tick"]
    /\ UNCHANGED <<confVars, cacheVars, navVars, sideVars>>

InitCache ==
    /\ webui = << >>
    /\ userFiles = << >>
    /\ cache = << >>
    /\ now = 0
    /\ nav = << >>
    /\ tasks = {}
    /\ ev = NoEvent
    /\ scen = 0
    /\ lastSet = << >>
    /\ putSince = {}
    /\ upload = << >>
    /\ tempFiles = {}
    /\ waitId = [u \in Users |-> 0]

NextCache ==
    \/ \E k \in CacheKeyInputs, m \in CacheMaxAges : CacheGetStep(k[1], k[2], k[3], m)
    \/ \E k \in CacheKeyInputs, d \in CacheDatas : CacheSetStep(k[1], k[2], k[3], d)
    \/ \E u \in Users \cup {<< >>} : CacheClearStep(u)
    \/ Tick

\* get_cache, set_cache and clear_cache called in any order as time passes.
SpecCache == InitCache /\ [][NextCache]_vars

\* A server address with a port, a path and a user id that hold the separator.
URL_X5 == <<"x", ":", "5">>
PATH_5 == <<"5", ":", "/">>
PATH_7 == <<"/", ":", "7">>
U7U == <<"7", ":", "u">>

\* Triples the cache is called with when addresses, paths and ids may hold ":".
SeparatorKeyInputs ==
    { <<URL_X, ROOT, U1>>, <<URL_X, ROOT, U2>>,
      <<URL_X5, ROOT, U1>>, <<URL_X, PATH_5, U1>>,
      <<URL_X, PATH_7, U1>>, <<URL_X, ROOT, U7U>> }

NextKeys ==
    \/ \E k \in SeparatorKeyInputs, m \in CacheMaxAges : CacheGetStep(k[1], k[2], k[3], m)
    \/ \E k \in SeparatorKeyInputs, d \in CacheDatas : CacheSetStep(k[1], k[2], k[3], d)

\* get_cache and set_cache called for such triples.
SpecKeys == InitCache /\ [][NextKeys]_vars

(***************************************************************************)
(* The ls and quit commands.  A handler runs without interruption up to an *)
(* await or a yield; what it still has to do then waits in tasks.          *)
(***************************************************************************)

\* The state of a user's navigation dict, created or not yet.
NavOf(ns, user_id) == GetUserNavigationState(ns, user_id)[user_id]

\* The observation of a navigation step: the command, its argument and outcome,
\* the item an index resolved to, and whether _update_user_navigation_state was
\* called, from which current_path and with which path.
NavEvent(op, user_id, out, arg, item, entered, from, path) ==
    [op |-> op, user |-> user_id, out |-> out, arg |-> arg, item |-> item,
     entered |-> entered, from |-> from, path |-> path]

\* The smallest identifier no waiting handler has.
FreshId(ts) == CHOOSE i \in 1..(Cardinality(ts) + 1) : \A t \in ts : t.id # i

\* A handler suspended at an await or a yield, with the locals it still uses;
\* of user_config these are the server address and the display limit.  For a
\* download chosen by number, path notes the directory the number was
\* resolved in (the handler itself keeps only the item).
Task(ts, op, user_id, arg, path, item, user_config, enable_cache) ==
    [id |-> FreshId(ts), op |-> op, user |-> user_id, arg |-> arg, path |-> path,
     item |-> item,
     user_config |-> [alist_url |-> user_config.alist_url,
                      max_display_files |-> user_config.max_display_files],
     enable_cache |-> enable_cache]

DefaultCacheDuration == 300
DefaultMaxDownloadSize == 50
MaxPathLen == 4
MaxStack == 2

ScenarioUser == U1
ScenarioListing == <<DirA, DirB, DirC, FileD, FileE>>

\* Where a user is in the session "ls /, ls 2, quit, quit" typed after a
\* start, each command answered before the next: 0 nothing typed, 1 "ls /"
\* sent, 2 answered with ScenarioListing, 3 "ls 2" sent, 4 answered with a
\* listing, 5 "quit" sent, 6 answered with a listing, 7 the second quit
\* answered "already at root", 8 the second quit sent to the server, -1 any
\* other course.
ScenNext(s, e, result) ==
    IF e.user # ScenarioUser THEN s
    ELSE IF s = 0 /\ e.op = "ls" /\ e.arg = SLASH /\ e.out = "wait" THEN 1
    ELSE IF s = 1 /\ e.op = "ls" /\ e.out = "listed" /\ result = ListData(ScenarioListing) THEN 2
    ELSE IF s = 2 /\ e.op = "ls" /\ e.arg = <<"2">> /\ e.out = "wait" THEN 3
    ELSE IF s = 3 /\ e.op = "ls" /\ e.out = "listed" THEN 4
    ELSE IF s = 4 /\ e.op = "quit" /\ e.out = "wait" THEN 5
    ELSE IF s = 5 /\ e.op = "quit" /\ e.out \in {"listed", "failed"} THEN 6
    ELSE IF s = 6 /\ e.op = "quit" /\ e.out = "already_root" THEN 7
    ELSE IF s = 6 /\ e.op = "quit" /\ e.out = "wait" THEN 8
    ELSE -1

\* A step's observation, with the answer of the server it handled (None when
\* it handled none), and the session monitor.
Observe(e, result) ==
    /\ ev' = [k \in DOMAIN e \cup {"result"} |-> IF k = "result" THEN result ELSE e[k]]
    /\ scen' = ScenNext(scen, e, result)

\* An ls that asks the server whatever the cache holds.
UseCached_Never(enable_cache, cached_result) == FALSE

\* "if enable_cache:" and "if cached_result:" (lines 1132-1136): the answer
\* is taken from the cache when it is enabled and get_cache returned data.
UseCached(enable_cache, cached_result) == enable_cache /\ cached_result # None

\* list_files from line 1124 on: the cache is tried, then the server is asked
\* (lines 1124-1149); ns is the navigation map after the index was resolved.
LsPath(user_id, arg, target_path, item, user_config, ns) ==
    LET enable_cache == GetWebuiConfig(webui, "enable_cache", TRUE)
        cache_duration == GetWebuiConfig(webui, "cache_duration", DefaultCacheDuration)
        r == GetCache(cache, now, user_config.alist_url, target_path, user_id,
                      cache_duration)
    IN  IF UseCached(enable_cache, r.result)
        THEN /\ nav' = FormatFileList(ns, r.result.content, target_path, user_config,
                                      user_id)
             /\ Len(NavOf(nav', user_id).parent_paths) <= MaxStack
             /\ cache' = r.cache
             /\ Observe(NavEvent("ls", user_id, "cached", arg, item,
                                 ~ContentFalsy(r.result.content),
                                 NavOf(ns, user_id).current_path, target_path),
                        r.result)
             /\ UNCHANGED <<sideVars, confVars, now, lastSet, putSince, tasks>>
        ELSE /\ nav' = ns
             /\ cache' = IF enable_cache THEN r.cache ELSE cache
             /\ putSince' = IF enable_cache THEN StillCached(putSince, r.cache)
                             ELSE putSince
             /\ tasks' = tasks \cup {Task(tasks, "ls", user_id, arg, target_path, item,
                                          user_config, enable_cache)}
             /\ Observe(NavEvent("ls", user_id, "wait", arg, item, FALSE, << >>,
                                 target_path), None)
             /\ UNCHANGED <<sideVars, confVars, now, lastSet>>

\* list_files, lines 1098-1121: "ls <number>"
LsNumber(user_id, arg, user_config) ==
    LET number == DigitsToInt(arg)
        ns == GetUserNavigationState(nav, user_id)
        item == GetItemByNumber(ns, user_id, number)
    IN  IF item = None
        THEN /\ nav' = ns
             /\ Observe(NavEvent("ls", user_id, "invalid_index", arg, item, FALSE,
                                 << >>, << >>), None)
             /\ UNCHANGED <<sideVars, confVars, cacheVars, now, tasks>>
        ELSE IF item.is_dir
        THEN /\ Len(JoinPath(ns[user_id].current_path, item.name)) <= MaxPathLen
             /\ LsPath(user_id, arg, JoinPath(ns[user_id].current_path, item.name),
                       item, user_config, ns)
        ELSE /\ nav' = ns
             /\ tasks' = tasks \cup {Task(tasks, "download", user_id, arg,
                                          ns[user_id].current_path, item,
                                          user_config, FALSE)}
             /\ Observe(NavEvent("ls", user_id, "download", arg, item, FALSE, << >>,
                                 << >>), None)
             /\ UNCHANGED <<sideVars, confVars, cacheVars, now>>

\* The ls command up to its first await or yield (lines 1089-1149).
LsStart(user_id, path) ==
    LET user_config == GetUserConfig(webui, userFiles, user_id) IN
    IF ~ValidateConfig(user_config)
    THEN /\ Observe(NavEvent("ls", user_id, "config_missing", path, None, FALSE,
                             << >>, << >>), None)
         /\ UNCHANGED <<sideVars, confVars, cacheVars, now, nav, tasks>>
    ELSE IF IsDigit(path) THEN LsNumber(user_id, path, user_config)
    ELSE LsPath(user_id, path, path, None, user_config, nav)

\* The navigation map moved to the target before the answer is looked at.
NavAfterListing_MovesFirst(ns, result, path, user_config, user_id) ==
    IF result = None
    THEN [GetUserNavigationState(ns, user_id) EXCEPT ![user_id].current_path = path]
    ELSE FormatFileList(ns, result.content, path, user_config, user_id)

\* The navigation map after list_files answered: "if result is not None"
\* leads to _format_file_list, the else branch only reports (lines 1151-1166).
NavAfterListing(ns, result, path, user_config, user_id) ==
    IF result = None THEN ns
    ELSE FormatFileList(ns, result.content, path, user_config, user_id)

\* The ls command after client.list_files answered result (lines 1150-1166).
LsFinish(t, result) ==
    /\ t \in tasks
    /\ t.op = "ls"
    /\ tasks' = tasks \ {t}
    /\ IF result = None
       THEN /\ nav' = NavAfterListing(nav, result, t.path, t.user_config, t.user)
            /\ Observe(NavEvent("ls", t.user, "unreachable", t.arg, t.item, FALSE,
                                << >>, t.path), result)
            /\ UNCHANGED <<sideVars, confVars, cacheVars, now>>
       ELSE /\ cache' = IF t.enable_cache
                        THEN SetCache(cache, now, t.user_config.alist_url, t.path,
                                      t.user, result)
                        ELSE cache
            /\ lastSet' = IF t.enable_cache
                          THEN NoteSet(lastSet, now, t.user_config.alist_url, t.path,
                                       t.user, result)
                          ELSE lastSet
            /\ putSince' = IF t.enable_cache
                           THEN putSince \ {GetCacheKey(t.user_config.alist_url,
                                                        t.path, t.user)}
                           ELSE putSince
            /\ nav' = NavAfterListing(nav, result, t.path, t.user_config, t.user)
            /\ Len(NavOf(nav', t.user).parent_paths) <= MaxStack
            /\ Observe(NavEvent("ls", t.user, "listed", t.arg, t.item,
                                ~ContentFalsy(result.content),
                                NavOf(nav, t.user).current_path, t.path), result)
            /\ UNCHANGED <<sideVars, confVars, now>>

\* A download that forgets the listing it chose from.
NavAfterDownload_ClearsItems(ns, user_id) ==
    [GetUserNavigationState(ns, user_id) EXCEPT ![user_id].items = << >>]

\* The navigation map after _download_file looked up the current path
\* (lines 682-683): the user's dict is read, nothing in it is assigned.
NavAfterDownload(ns, user_id) == GetUserNavigationState(ns, user_id)

\* _download_file and what follows it, for a file chosen by "ls <number>": the
\* size limit, the path built from the current directory at that moment, and
\* the transfer, which ends in one of its outcomes (lines 663-765).
DownloadRun(t, outcome) ==
    /\ t \in tasks
    /\ t.op = "download"
    /\ tasks' = tasks \ {t}
    /\ nav' = IF t.item.size > GetWebuiConfig(webui, "max_download_size",
                                              DefaultMaxDownloadSize) * 1024 * 1024
              THEN nav
              ELSE NavAfterDownload(nav, t.user)
    /\ Observe(NavEvent("download", t.user,
                        IF t.item.size > GetWebuiConfig(webui, "max_download_size",
                                             DefaultMaxDownloadSize) * 1024 * 1024
                        THEN "too_large" ELSE outcome,
                        t.arg, t.item, FALSE, << >>,
                        JoinPath(NavOf(nav, t.user).current_path, t.item.name)), None)
    /\ UNCHANGED <<sideVars, confVars, cacheVars, now>>

\* The quit command up to its await (lines 1377-1402): the pop happens here.
QuitStart(user_id) ==
    LET user_config == GetUserConfig(webui, userFiles, user_id)
        ns == GetUserNavigationState(nav, user_id)
    IN  IF ~ValidateConfig(user_config)
        THEN /\ Observe(NavEvent("quit", user_id, "config_missing", << >>, None,
                                 FALSE, << >>, << >>), None)
             /\ UNCHANGED <<sideVars, confVars, cacheVars, now, nav, tasks>>
        ELSE IF ns[user_id].parent_paths = << >>
        THEN /\ nav' = ns
             /\ Observe(NavEvent("quit", user_id, "already_root", << >>, None, FALSE,
                                 << >>, << >>), None)
             /\ UNCHANGED <<sideVars, confVars, cacheVars, now, tasks>>
        ELSE /\ nav' = [ns EXCEPT ![user_id].parent_paths =
                                      PopParent(ns[user_id].parent_paths).rest]
             /\ tasks' = tasks \cup
                    {Task(tasks, "quit", user_id, << >>,
                          PopParent(ns[user_id].parent_paths).previous_path, None,
                          user_config, FALSE)}
             /\ Observe(NavEvent("quit", user_id, "wait", << >>, None, FALSE, << >>,
                                 PopParent(ns[user_id].parent_paths).previous_path),
                        None)
             /\ UNCHANGED <<sideVars, confVars, cacheVars, now>>

\* The quit command after client.list_files answered result (lines 1403-1420).
\* A null content makes files[:n] raise after current_path was assigned.
QuitFinish(t, result) ==
    /\ t \in tasks
    /\ t.op = "quit"
    /\ tasks' = tasks \ {t}
    /\ IF result = None
       THEN /\ Observe(NavEvent("quit", t.user, "unreachable", << >>, None, FALSE,
                                << >>, t.path), result)
            /\ UNCHANGED nav
       ELSE IF "null" \in DOMAIN result.content
       THEN /\ nav' = [nav EXCEPT ![t.user].current_path = t.path]
            /\ Observe(NavEvent("quit", t.user, "failed", << >>, None, FALSE, << >>,
                                t.path), result)
       ELSE /\ nav' = FormatFileList(
                         [nav EXCEPT ![t.user].current_path = t.path,
                                     ![t.user].items =
                                         PyTake(result.content.list,
                                                GetWebuiConfig(webui, "max_display_files",
                                                               DefaultMaxDisplayFiles))],
                         result.content, t.path, t.user_config, t.user)
            /\ Observe(NavEvent("quit", t.user, "listed", << >>, None,
                                ~ContentFalsy(result.content), t.path, t.path), result)
    /\ UNCHANGED <<sideVars, confVars, cacheVars, now>>

(***************************************************************************)
(* Inputs of the navigation commands                                       *)
(***************************************************************************)

\* What is typed after "ls": paths and numbers
LsArgs ==
    { SLASH, <<"/", "a">>, <<"/", "a", "/">>,
      <<"0">>, <<"1">>, <<"2">>, <<"4">>, <<"6">> }

\* What the server answers to /api/fs/list: no data (None), a data object whose
\* content is null, an empty directory, or a directory with entries.
ListAnswers ==
    { None, NullData, ListData(<< >>), ListData(<<FileD, DirA>>),
      ListData(ScenarioListing) }

DownloadOutcomes == {"no_link", "failed", "sent"}

\* The WebUI settings of the navigation runs: a shared server, or none.
WebuiNav ==
    { [default_alist_url |-> URL_G, enable_cache |-> FALSE,
       allowed_extensions |-> [str |-> <<".", "a">>]],
      [enable_cache |-> FALSE] }

InitNav ==
    /\ webui \in WebuiNav
    /\ userFiles = << >>
    /\ cache = << >>
    /\ now = 0
    /\ nav = << >>
    /\ tasks = {}
    /\ ev = NoEvent
    /\ scen = 0
    /\ lastSet = << >>
    /\ putSince = {}
    /\ upload = << >>
    /\ tempFiles = {}
    /\ waitId = [u \in Users |-> 0]

\* Each user sends a command after the answer to the previous one arrived.
\* The second user only lists the root and picks a file from it.
LsArgsOf(u) == IF u = U1 THEN LsArgs ELSE {SLASH, <<"4">>}

NextNav ==
    \/ \E u \in Users : \E a \in LsArgsOf(u) : tasks = {} /\ LsStart(u, a)
    \/ \E t \in tasks, r \in ListAnswers : LsFinish(t, r)
    \/ \E t \in tasks, o \in DownloadOutcomes : DownloadRun(t, o)
    \/ \E u \in Users : tasks = {} /\ QuitStart(u)
    \/ \E t \in tasks, r \in ListAnswers : QuitFinish(t, r)

\* ls and quit typed one command at a time.
SpecNav == InitNav /\ [][NextNav]_vars

(***************************************************************************)
(* Upload: the waiting state, the upload command, its timer, and the       *)
(* handler of messages that carry a file or an image                       *)
(***************************************************************************)

\* The dict _get_user_upload_state creates on a user's first use.
FreshUpload == [waiting |-> FALSE, target_path |-> SLASH]

\* AlistFilePlugin._get_user_upload_state: the map after the call
GetUserUploadState(us, user_id) ==
    IF user_id \in DOMAIN us THEN us ELSE DictSet(us, user_id, FreshUpload)

\* The state of a user's upload dict, created or not yet.
UploadOf(us, user_id) == GetUserUploadState(us, user_id)[user_id]

\* _set_user_upload_waiting writing every user's dict.
SetUserUploadWaiting_Shared(us, user_id, waiting, target_path) ==
    [u \in DOMAIN GetUserUploadState(us, user_id) |->
        [waiting |-> waiting, target_path |-> target_path]]

\* AlistFilePlugin._set_user_upload_waiting: the map after the call
SetUserUploadWaiting(us, user_id, waiting, target_path) ==
    [GetUserUploadState(us, user_id) EXCEPT
        ![user_id] = [waiting |-> waiting, target_path |-> target_path]]

UploadTimeout == 600
DefaultMaxUploadSize == 100

\* The size test of _upload_file and _upload_image left out.
UploadTooLarge_Never(w, file_size) == FALSE

\* file_size > max_upload_size_mb * 1024 * 1024 (lines 787-789, 866-868)
UploadTooLarge(w, file_size) ==
    file_size > GetWebuiConfig(w, "max_upload_size", DefaultMaxUploadSize) * 1024 * 1024

\* A timer of auto_cancel_upload that wakes up and resets nothing.
TimerCancels_Idle(us, user_id) == GetUserUploadState(us, user_id)

\* auto_cancel_upload after its sleep (lines 1476-1478): the map after it ran
TimerCancels(us, user_id) ==
    IF UploadOf(us, user_id).waiting
    THEN SetUserUploadWaiting(us, user_id, FALSE, SLASH)
    ELSE GetUserUploadState(us, user_id)

\* The observation of an upload step.
UploadEvent(op, user_id, out, wait, path, entered) ==
    [op |-> op, user |-> user_id, out |-> out, wait |-> wait, path |-> path,
     entered |-> entered]

\* /alist upload cancel (lines 1432-1439)
UploadCancel(user_id) ==
    /\ upload' = IF UploadOf(upload, user_id).waiting
                 THEN SetUserUploadWaiting(upload, user_id, FALSE, SLASH)
                 ELSE GetUserUploadState(upload, user_id)
    /\ Observe(UploadEvent("upload_cancel", user_id,
                           IF UploadOf(upload, user_id).waiting
                           THEN "cancelled" ELSE "not_waiting",
                           waitId[user_id], << >>, FALSE), None)
    /\ UNCHANGED <<confVars, cacheVars, now, nav, tasks, tempFiles, waitId>>

\* /alist upload up to the yield of its answer (lines 1441-1471)
UploadStart(user_id) ==
    LET user_config == GetUserConfig(webui, userFiles, user_id)
        ns == GetUserNavigationState(nav, user_id)
    IN  IF ~ValidateConfig(user_config)
        THEN /\ Observe(UploadEvent("upload", user_id, "config_missing",
                                    waitId[user_id], << >>, FALSE), None)
             /\ UNCHANGED <<confVars, cacheVars, now, nav, tasks, sideVars>>
        ELSE /\ nav' = ns
             /\ upload' = SetUserUploadWaiting(upload, user_id, TRUE,
                                               ns[user_id].current_path)
             /\ waitId' = [waitId EXCEPT ![user_id] = @ + 1]
             /\ tasks' = tasks \cup
                    {[id |-> FreshId(tasks), op |-> "upload_started", user |-> user_id,
                      wait |-> waitId[user_id] + 1]}
             /\ Observe(UploadEvent("upload", user_id, "waiting",
                                    waitId[user_id] + 1, ns[user_id].current_path,
                                    FALSE), None)
             /\ UNCHANGED <<confVars, cacheVars, now, tempFiles>>

\* /alist upload after the yield: asyncio.create_task(auto_cancel_upload()),
\* whose sleep starts now (lines 1474-1482)
UploadArm(t) ==
    /\ t \in tasks
    /\ t.op = "upload_started"
    /\ tasks' = (tasks \ {t}) \cup
           {[id |-> t.id, op |-> "timer", user |-> t.user,
             due |-> now + UploadTimeout, wait |-> t.wait]}
    /\ Observe(UploadEvent("upload_arm", t.user, "armed", t.wait, << >>, FALSE), None)
    /\ UNCHANGED <<confVars, cacheVars, now, nav, sideVars>>

\* auto_cancel_upload once its sleep is over (lines 1476-1480)
AutoCancelUpload(t) ==
    /\ t \in tasks
    /\ t.op = "timer"
    /\ now >= t.due
    /\ tasks' = tasks \ {t}
    /\ upload' = TimerCancels(upload, t.user)
    /\ Observe(UploadEvent("timer", t.user,
                           IF UploadOf(upload, t.user).waiting
                           THEN "cancelled" ELSE "noop",
                           t.wait, << >>, FALSE), None)
    /\ UNCHANGED <<confVars, cacheVars, now, nav, tempFiles, waitId>>

\* The target taken from where the user is when the attachment arrives.
UploadTargetPath_CurrentPath(us, ns, user_id) ==
    GetUserNavigationState(ns, user_id)[user_id].current_path

\* upload_state["target_path"] as _upload_file and _upload_image read it
\* (lines 771-773 and 838-840); the navigation state is not consulted.
UploadTargetPath(us, ns, user_id) == us[user_id].target_path

\* handle_file_message up to the first await of _upload_file / _upload_image
\* (lines 1490-1522, 771-778, 839-845); kind is "file" or "image"
HandleFileMessage(user_id, kind, file_size) ==
    LET us == GetUserUploadState(upload, user_id)
        user_config == GetUserConfig(webui, userFiles, user_id)
    IN  IF ~us[user_id].waiting
        THEN /\ upload' = us
             /\ Observe(UploadEvent("attach", user_id, "ignored", waitId[user_id],
                                    << >>, FALSE), None)
             /\ UNCHANGED <<confVars, cacheVars, now, nav, tasks, tempFiles, waitId>>
        ELSE IF ~ValidateConfig(user_config)
        THEN /\ upload' = SetUserUploadWaiting(us, user_id, FALSE, SLASH)
             /\ Observe(UploadEvent("attach", user_id, "config_missing",
                                    waitId[user_id], << >>, FALSE), None)
             /\ UNCHANGED <<confVars, cacheVars, now, nav, tasks, tempFiles, waitId>>
        ELSE /\ upload' = us
             /\ tasks' = tasks \cup
                    {[id |-> FreshId(tasks), op |-> "upload", stage |-> "fetch",
                      user |-> user_id, kind |-> kind, size |-> file_size,
                      path |-> UploadTargetPath(us, nav, user_id),
                      user_config |-> [alist_url |-> user_config.alist_url,
                                       max_display_files |->
                                           user_config.max_display_files]]}
             /\ Observe(UploadEvent("attach", user_id, "fetching", waitId[user_id],
                                    UploadTargetPath(us, nav, user_id), FALSE), None)
             /\ UNCHANGED <<confVars, cacheVars, now, nav, tempFiles, waitId>>

\* _upload_file / _upload_image after get_file / convert_to_file_path: got is
\* "ok", "missing" (no local file) or "error" (an exception), lines 778-807 and
\* 845-886; a file within the limit goes to client.upload_file
UploadFetched(t, got) ==
    /\ t \in tasks
    /\ t.op = "upload"
    /\ t.stage = "fetch"
    /\ IF got = "error"
       THEN /\ tasks' = tasks \ {t}
            /\ upload' = SetUserUploadWaiting(upload, t.user, FALSE, SLASH)
            /\ Observe(UploadEvent("upload_file", t.user, "error", waitId[t.user],
                                   t.path, FALSE), None)
       ELSE IF got = "missing"
       THEN /\ tasks' = tasks \ {t}
            /\ Observe(UploadEvent("upload_file", t.user, "unobtainable",
                                   waitId[t.user], t.path, FALSE), None)
            /\ UNCHANGED upload
       ELSE IF UploadTooLarge(webui, t.size)
       THEN /\ tasks' = tasks \ {t}
            /\ Observe(UploadEvent("upload_file", t.user, "too_large", waitId[t.user],
                                   t.path, FALSE), None)
            /\ UNCHANGED upload
       ELSE /\ tasks' = (tasks \ {t}) \cup {[t EXCEPT !.stage = "put"]}
            /\ Observe(UploadEvent("upload_file", t.user, "put_sent", waitId[t.user],
                                   t.path, FALSE), None)
            /\ UNCHANGED upload
    /\ UNCHANGED <<confVars, cacheVars, now, nav, tempFiles, waitId>>

\* client.upload_file answered (lines 807-812, 827-828 and 886-891, 906-907)
UploadPutDone(t, success) ==
    /\ t \in tasks
    /\ t.op = "upload"
    /\ t.stage = "put"
    /\ tasks' = IF success
                THEN (tasks \ {t}) \cup {[t EXCEPT !.stage = "succeeded"]}
                ELSE tasks \ {t}
    /\ putSince' = IF success
                   THEN NotePut(putSince, cache, t.user_config.alist_url, t.path,
                                t.user)
                   ELSE putSince
    /\ Observe(UploadEvent("upload_file", t.user,
                           IF success THEN "put_ok" ELSE "put_failed",
                           waitId[t.user], t.path, FALSE), None)
    /\ UNCHANGED <<confVars, cache, lastSet, now, nav, sideVars>>

\* After the yield of the success message: the waiting state is reset and the
\* target directory is asked for (lines 815-818, 894-897)
UploadClear(t) ==
    /\ t \in tasks
    /\ t.op = "upload"
    /\ t.stage = "succeeded"
    /\ tasks' = (tasks \ {t}) \cup {[t EXCEPT !.stage = "refresh"]}
    /\ upload' = SetUserUploadWaiting(upload, t.user, FALSE, SLASH)
    /\ Observe(UploadEvent("upload_file", t.user, "cleared", waitId[t.user], t.path,
                           FALSE), None)
    /\ UNCHANGED <<confVars, cacheVars, now, nav, tempFiles, waitId>>

\* client.list_files(target_path) answered result (lines 818-826, 897-905)
UploadRefreshed(t, result) ==
    /\ t \in tasks
    /\ t.op = "upload"
    /\ t.stage = "refresh"
    /\ tasks' = tasks \ {t}
    /\ IF result = None
       THEN /\ Observe(UploadEvent("upload_file", t.user, "refresh_failed",
                                   waitId[t.user], t.path, FALSE), result)
            /\ UNCHANGED nav
       ELSE /\ nav' = FormatFileList(nav, result.content, t.path, t.user_config,
                                     t.user)
            /\ Len(NavOf(nav', t.user).parent_paths) <= MaxStack
            /\ Observe(UploadEvent("upload_file", t.user, "refreshed", waitId[t.user],
                                   t.path, ~ContentFalsy(result.content)), result)
    /\ UNCHANGED <<confVars, cacheVars, now, sideVars>>

(***************************************************************************)
(* Upload mode driven by one user, with navigation and passing time        *)
(***************************************************************************)

MaxClock == 600
MaxStarts == 2
\* Handlers waiting on the network or on a yield (timers not counted).
Inflight == {t \in tasks : t.op # "timer"}

\* Half a timeout passes.  The clock stops at MaxClock unless a timer still
\* has to come due.
Sleep ==
    /\ IF now < MaxClock THEN TRUE
       ELSE \E t \in tasks : t.op = "timer" /\ t.due > now
    /\ now' = now + UploadTimeout \div 2
    /\ Observe(UploadEvent("sleep", << >>, "slept", 0, << >>, FALSE), None)
    /\ UNCHANGED <<confVars, cacheVars, nav, tasks, sideVars>>

\* Sizes of the files users send: one byte, and one byte over 100 MiB.
AttachmentSizes == {1, 100 * 1024 * 1024 + 1}
AttachmentKinds == {"file", "image"}
FetchOutcomes == {"ok", "missing", "error"}

\* The WebUI settings of the upload runs: a shared server, two items shown.
WebuiUpload ==
    [default_alist_url |-> URL_G, enable_cache |-> FALSE, max_display_files |-> 2,
     allowed_extensions |-> [str |-> <<".", "a">>]]

UploadLsArgs == { <<"/", "a">> }

\* An unsorted directory of three entries, an empty one, no answer.
UploadListAnswers == { None, ListData(<< >>), ListData(<<FileD, DirB, DirA>>) }

InitUpload ==
    /\ webui = WebuiUpload
    /\ userFiles = << >>
    /\ cache = << >>
    /\ now = 0
    /\ nav = << >>
    /\ tasks = {}
    /\ ev = NoEvent
    /\ scen = 0
    /\ lastSet = << >>
    /\ putSince = {}
    /\ upload = << >>
    /\ tempFiles = {}
    /\ waitId = [u \in Users |-> 0]

NextUpload ==
    \/ \E a \in UploadLsArgs : Inflight = {} /\ LsStart(U1, a)
    \/ \E t \in tasks, r \in UploadListAnswers : LsFinish(t, r)
    \/ Inflight = {} /\ QuitStart(U1)
    \/ \E t \in tasks, r \in UploadListAnswers : QuitFinish(t, r)
    \/ Inflight = {} /\ waitId[U1] < MaxStarts /\ UploadStart(U1)
    \/ \E t \in tasks : UploadArm(t)
    \/ UploadCancel(U1)
    \/ \E t \in tasks : AutoCancelUpload(t)
    \/ \E k \in AttachmentKinds, z \in AttachmentSizes :
           Inflight = {} /\ HandleFileMessage(U1, k, z)
    \/ \E t \in tasks, g \in FetchOutcomes : UploadFetched(t, g)
    \/ \E t \in tasks, b \in BOOLEAN : UploadPutDone(t, b)
    \/ \E t \in tasks : UploadClear(t)
    \/ \E t \in tasks, r \in UploadListAnswers : UploadRefreshed(t, r)
    \/ Sleep

\* One user navigates and uploads while time passes and timers run; a command
\* is sent after the previous one was answered.
SpecUpload == InitUpload /\ [][NextUpload]_vars

\* The same, with what the event loop guarantees: time passes, a handler is
\* resumed after its yield, a timer runs once it is due.
SpecUploadLive ==
    /\ SpecUpload
    /\ WF_vars(Sleep)
    /\ WF_vars(\E t \in tasks : UploadArm(t))
    /\ WF_vars(\E t \in tasks : AutoCancelUpload(t))

(***************************************************************************)
(* Upload with the cache enabled: listings are cached before a file is put *)
(***************************************************************************)

WebuiRefresh == [WebuiUpload EXCEPT !.enable_cache = TRUE]

InitRefresh ==
    /\ webui = WebuiRefresh
    /\ userFiles = << >>
    /\ cache = << >>
    /\ now = 0
    /\ nav = << >>
    /\ tasks = {}
    /\ ev = NoEvent
    /\ scen = 0
    /\ lastSet = << >>
    /\ putSince = {}
    /\ upload = << >>
    /\ tempFiles = {}
    /\ waitId = [u \in Users |-> 0]

NextRefresh ==
    \/ \E a \in UploadLsArgs \cup {SLASH} : Inflight = {} /\ LsStart(U1, a)
    \/ \E t \in tasks, r \in UploadListAnswers : LsFinish(t, r)
    \/ Inflight = {} /\ waitId[U1] < MaxStarts /\ UploadStart(U1)
    \/ \E t \in tasks : UploadArm(t)
    \/ \E k \in AttachmentKinds, z \in AttachmentSizes :
           Inflight = {} /\ HandleFileMessage(U1, k, z)
    \/ \E t \in tasks, g \in FetchOutcomes : UploadFetched(t, g)
    \/ \E t \in tasks, b \in BOOLEAN : UploadPutDone(t, b)
    \/ \E t \in tasks : UploadClear(t)
    \/ \E t \in tasks, r \in UploadListAnswers : UploadRefreshed(t, r)

\* One user lists directories into the cache and uploads into them.
SpecRefresh == InitRefresh /\ [][NextRefresh]_vars

(***************************************************************************)
(* download: the command, the transfer and the deferred clean-up           *)
(***************************************************************************)

CleanupDelay == 10

\* A file above the default download limit of 50 MB.
FileF == [name |-> <<"f">>, is_dir |-> FALSE,
          size |-> DefaultMaxDownloadSize * 1024 * 1024 + 1]

\* The size test that lets every file through.
DownloadTooLarge_Never(w, file_size) == FALSE

\* file_size > max_download_size_mb * 1024 * 1024 (lines 672-674)
DownloadTooLarge(w, file_size) ==
    file_size > GetWebuiConfig(w, "max_download_size", DefaultMaxDownloadSize) * 1024 * 1024

\* f"{user_id}_{int(time.time())}_{safe_filename}" in the downloads directory
\* (lines 709-714); the names used here consist of alphanumerics only.
TempFilePath(user_id, t, file_name) == [user |-> user_id, time |-> t, name |-> file_name]

\* The file opened for writing whatever the GET answered.
FilesAfterGet_OpenedFirst(files, temp, status) == files \cup {temp}

\* The downloads directory after the GET was answered: open(temp_file_path,
\* "wb") runs only under "response.status == 200" (lines 722-724).
FilesAfterGet(files, temp, status) ==
    IF status = "http_error" THEN files ELSE files \cup {temp}

\* Handlers of a download that reached the network: the link request or the GET.
DownloadCalls == {"download_url", "download_get"}

\* The download command up to its first await or yield (lines 1301-1340).
DownloadStart(user_id, path) ==
    LET user_config == GetUserConfig(webui, userFiles, user_id)
        ns == GetUserNavigationState(nav, user_id)
        item == GetItemByNumber(ns, user_id, DigitsToInt(path))
    IN  IF ~ValidateConfig(user_config)
        THEN /\ Observe(NavEvent("download", user_id, "config_missing", path, None,
                                 FALSE, << >>, << >>), None)
             /\ UNCHANGED <<sideVars, confVars, cacheVars, now, nav, tasks>>
        ELSE IF ~IsDigit(path)
        THEN /\ tasks' = tasks \cup {Task(tasks, "link", user_id, path, path, None,
                                          user_config, FALSE)}
             /\ Observe(NavEvent("download", user_id, "link_wait", path, None, FALSE,
                                 << >>, path), None)
             /\ UNCHANGED <<sideVars, confVars, cacheVars, now, nav>>
        ELSE IF item = None
        THEN /\ nav' = ns
             /\ Observe(NavEvent("download", user_id, "invalid_index", path, item,
                                 FALSE, << >>, << >>), None)
             /\ UNCHANGED <<sideVars, confVars, cacheVars, now, tasks>>
        ELSE IF item.is_dir
        THEN /\ nav' = ns
             /\ Observe(NavEvent("download", user_id, "is_dir", path, item, FALSE,
                                 << >>, << >>), None)
             /\ UNCHANGED <<sideVars, confVars, cacheVars, now, tasks>>
        ELSE /\ nav' = ns
             /\ tasks' = tasks \cup {Task(tasks, "download", user_id, path,
                                          ns[user_id].current_path, item,
                                          user_config, FALSE)}
             /\ Observe(NavEvent("download", user_id, "preparing", path, item, FALSE,
                                 << >>, << >>), None)
             /\ UNCHANGED <<sideVars, confVars, cacheVars, now>>

\* download by path after client.get_download_url answered (lines 1347-1365):
\* the link is shown, with the file's name and size when get_file_info answers
\* too.  Nothing of the plugin's state is touched.
DownloadLinked(t, outcome) ==
    /\ t \in tasks
    /\ t.op = "link"
    /\ tasks' = tasks \ {t}
    /\ Observe(NavEvent("download", t.user, outcome, t.arg, None, FALSE, << >>,
                        t.path), None)
    /\ UNCHANGED <<sideVars, confVars, cacheVars, now, nav>>

\* _download_file from its call to the await of get_download_url (lines
\* 667-699): the size limit, then the path under the directory the user is in
\* at this moment.  The event's "from" is the directory the item was chosen
\* in, its "path" the path that is requested.
DownloadPrepare(t) ==
    /\ t \in tasks
    /\ t.op = "download"
    /\ IF DownloadTooLarge(webui, t.item.size)
       THEN /\ tasks' = tasks \ {t}
            /\ Observe(NavEvent("download", t.user, "too_large", t.arg, t.item,
                                FALSE, << >>, << >>), None)
            /\ UNCHANGED nav
       ELSE /\ nav' = NavAfterDownload(nav, t.user)
            /\ tasks' = (tasks \ {t}) \cup
                   {[t EXCEPT !.op = "download_url",
                              !.path = JoinPath(NavOf(nav, t.user).current_path,
                                                t.item.name)]}
            /\ Observe(NavEvent("download", t.user, "locating", t.arg, t.item,
                                FALSE, t.path,
                                JoinPath(NavOf(nav, t.user).current_path,
                                         t.item.name)), None)
    /\ UNCHANGED <<sideVars, confVars, cacheVars, now>>

\* _download_file after get_download_url answered, up to the GET (lines
\* 699-722): without a link it ends; with one the temporary name is chosen.
DownloadLocated(t, has_url) ==
    /\ t \in tasks
    /\ t.op = "download_url"
    /\ IF has_url
       THEN /\ tasks' = (tasks \ {t}) \cup
                   {[id |-> t.id, op |-> "download_get", user |-> t.user,
                     arg |-> t.arg, path |-> t.path, item |-> t.item,
                     temp |-> TempFilePath(t.user, now, t.item.name)]}
            /\ Observe(NavEvent("download", t.user, "started", t.arg, t.item, FALSE,
                                << >>, t.path), None)
       ELSE /\ tasks' = tasks \ {t}
            /\ Observe(NavEvent("download", t.user, "no_link", t.arg, t.item, FALSE,
                                << >>, t.path), None)
    /\ UNCHANGED <<sideVars, confVars, cacheVars, now, nav>>

\* _download_file from the answer of the GET on (lines 722-765).  status is
\* "http_error" (not 200: no file is opened), "broken" (200, the file is
\* opened and the transfer raises: the file stays) or "complete" (the file is
\* written and sent, and cleanup_file is scheduled).
DownloadBody(t, status) ==
    /\ t \in tasks
    /\ t.op = "download_get"
    /\ tempFiles' = FilesAfterGet(tempFiles, t.temp, status)
    /\ tasks' = IF status = "complete"
                THEN (tasks \ {t}) \cup
                         {[id |-> t.id, op |-> "cleanup", user |-> t.user,
                           due |-> now + CleanupDelay, temp |-> t.temp]}
                ELSE tasks \ {t}
    /\ Observe(NavEvent("download", t.user,
                        IF status = "complete" THEN "sent"
                        ELSE IF status = "http_error" THEN "http_error"
                        ELSE "failed",
                        t.arg, t.item, FALSE, << >>, t.path), None)
    /\ UNCHANGED <<confVars, cacheVars, now, nav, upload, waitId>>

\* A clean-up that wakes up and removes nothing.
FilesAfterCleanup_Keeps(files, temp, removable) == files

\* The downloads directory after cleanup_file ran (lines 750-754): the file
\* is removed when it exists and os.remove succeeds; a failure is swallowed.
FilesAfterCleanup(files, temp, removable) ==
    IF temp \in files /\ removable THEN files \ {temp} ELSE files

\* cleanup_file after its sleep (lines 748-754); removable tells whether
\* os.remove would succeed.
CleanupFile(t, removable) ==
    /\ t \in tasks
    /\ t.op = "cleanup"
    /\ now >= t.due
    /\ tasks' = tasks \ {t}
    /\ tempFiles' = FilesAfterCleanup(tempFiles, t.temp, removable)
    /\ Observe([op |-> "cleanup", user |-> t.user, temp |-> t.temp,
                out |-> IF t.temp \notin tempFiles THEN "absent"
                        ELSE IF removable THEN "removed" ELSE "kept"], None)
    /\ UNCHANGED <<confVars, cacheVars, now, nav, upload, waitId>>

(***************************************************************************)
(* Browsing and downloading by one user, with the cache enabled            *)
(***************************************************************************)

\* Handlers of downloads and listings waiting on the network or on a yield.
Pending == {t \in tasks : t.op # "cleanup"}

\* Commands are accepted while the clock is below this.
MaxDownloadClock == 20
\* Clean-ups that may be outstanding when a command is accepted.
MaxCleanups == 2

\* Ten seconds pass while a clean-up is not yet due.
CleanupSleep ==
    /\ \E t \in tasks : t.op = "cleanup" /\ t.due > now
    /\ now' = now + CleanupDelay
    /\ Observe([op |-> "sleep", user |-> << >>, out |-> "slept"], None)
    /\ UNCHANGED <<confVars, cacheVars, nav, tasks, sideVars>>

WebuiDownload ==
    [default_alist_url |-> URL_G, enable_cache |-> TRUE,
     allowed_extensions |-> [str |-> <<".", "a">>]]

DownloadLsArgs == { SLASH, <<"0">>, <<"1">>, <<"3">>, <<"4">> }
DownloadArgs == { <<"0">>, <<"1">>, <<"2">>, <<"3">>, <<"4">>, <<"/", "d">> }
DownloadListAnswers == { None, ListData(<<FileD, DirA, FileF>>) }
LinkOutcomes == { "link", "link_bare", "no_link", "link_error" }
GetStatuses == { "http_error", "broken", "complete" }

InitDownload ==
    /\ webui = WebuiDownload
    /\ userFiles = << >>
    /\ cache = << >>
    /\ now = 0
    /\ nav = << >>
    /\ tasks = {}
    /\ ev = NoEvent
    /\ scen = 0
    /\ lastSet = << >>
    /\ putSince = {}
    /\ upload = << >>
    /\ tempFiles = {}
    /\ waitId = [u \in Users |-> 0]

NextDownload ==
    \/ \E a \in DownloadLsArgs :
          /\ Pending = {} /\ Cardinality(tasks) < MaxCleanups
          /\ now < MaxDownloadClock
          /\ LsStart(U1, a)
    \/ \E t \in tasks, r \in DownloadListAnswers : LsFinish(t, r)
    \/ \E a \in DownloadArgs :
          /\ Pending = {} /\ Cardinality(tasks) < MaxCleanups
          /\ now < MaxDownloadClock
          /\ DownloadStart(U1, a)
    \/ \E t \in tasks, o \in LinkOutcomes : DownloadLinked(t, o)
    \/ \E t \in tasks : DownloadPrepare(t)
    \/ \E t \in tasks, b \in BOOLEAN : DownloadLocated(t, b)
    \/ \E t \in tasks, s \in GetStatuses : DownloadBody(t, s)
    \/ \E t \in tasks, b \in BOOLEAN : CleanupFile(t, b)
    \/ CleanupSleep

SpecDownload == InitDownload /\ [][NextDownload]_vars

\* The same, with what the event loop guarantees: time passes and a clean-up
\* runs once its sleep is over.
SpecDownloadLive ==
    /\ SpecDownload
    /\ WF_vars(CleanupSleep)
    /\ WF_vars(\E t \in tasks, b \in BOOLEAN : CleanupFile(t, b))

(***************************************************************************)
(* One user whose commands overlap: a command is sent while an earlier one *)
(* of the same user is suspended at an await or a yield                    *)
(***************************************************************************)

\* Handlers of the user that may be suspended at the same time.
MaxHandlers == 2
\* Commands are accepted while the clock is below this.
MaxRaceClock == 10

RaceLsArgs == { <<"/", "a">>, <<"1">> }
RaceListAnswers == { None, ListData(<<FileD, DirA>>) }

InitRace ==
    /\ webui = WebuiUpload
    /\ userFiles = << >>
    /\ cache = << >>
    /\ now = 0
    /\ nav = << >>
    /\ tasks = {}
    /\ ev = NoEvent
    /\ scen = 0
    /\ lastSet = << >>
    /\ putSince = {}
    /\ upload = << >>
    /\ tempFiles = {}
    /\ waitId = [u \in Users |-> 0]

NextRace ==
    \/ \E a \in RaceLsArgs :
          Cardinality(tasks) < MaxHandlers /\ now < MaxRaceClock /\ LsStart(U1, a)
    \/ \E t \in tasks, r \in RaceListAnswers : LsFinish(t, r)
    \/ Cardinality(tasks) < MaxHandlers /\ now < MaxRaceClock /\ QuitStart(U1)
    \/ \E t \in tasks, r \in RaceListAnswers : QuitFinish(t, r)
    \/ /\ Cardinality(tasks) < MaxHandlers /\ now < MaxRaceClock
       /\ DownloadStart(U1, <<"2">>)
    \/ \E t \in tasks : DownloadPrepare(t)
    \/ \E t \in tasks, b \in BOOLEAN : DownloadLocated(t, b)
    \/ \E t \in tasks, g \in GetStatuses : DownloadBody(t, g)
    \/ \E t \in tasks, b \in BOOLEAN : CleanupFile(t, b)
    \/ CleanupSleep

\* The server lists every directory as [d, a/] or fails; handlers and
\* clean-ups are resumed in any order.
SpecRace == InitRace /\ [][NextRace]_vars

(***************************************************************************)
(* Two users at once: their handlers interleave at every await and yield   *)
(***************************************************************************)

\* The handlers of one user that wait on the network or on a yield.
Busy(u) == {t \in Inflight : t.user = u}

\* Upload modes a user starts while two users are followed.
MaxUserStarts == 1

UsersListAnswers == { None, ListData(<<FileD, DirA>>) }

InitUsers ==
    /\ webui = WebuiUpload
    /\ userFiles = << >>
    /\ cache = << >>
    /\ now = 0
    /\ nav = << >>
    /\ tasks = {}
    /\ ev = NoEvent
    /\ scen = 0
    /\ lastSet = << >>
    /\ putSince = {}
    /\ upload = << >>
    /\ tempFiles = {}
    /\ waitId = [u \in Users |-> 0]

NextUsers ==
    \/ Busy(U1) = {} /\ LsStart(U1, <<"/", "a">>)
    \/ \E t \in tasks, r \in UsersListAnswers : LsFinish(t, r)
    \/ Busy(U1) = {} /\ QuitStart(U1)
    \/ \E t \in tasks, r \in UsersListAnswers : QuitFinish(t, r)
    \/ \E u \in Users : Busy(u) = {} /\ waitId[u] < MaxUserStarts /\ UploadStart(u)
    \/ \E t \in tasks : UploadArm(t)
    \/ UploadCancel(U2)
    \/ \E t \in tasks : AutoCancelUpload(t)
    \/ Busy(U2) = {} /\ HandleFileMessage(U2, "file", 1)
    \/ \E t \in tasks : UploadFetched(t, "ok")
    \/ \E t \in tasks : UploadPutDone(t, TRUE)
    \/ \E t \in tasks : UploadClear(t)
    \/ \E t \in tasks, r \in UsersListAnswers : UploadRefreshed(t, r)
    \/ ConfigSet(U1, "username", STR_P)
    \/ (\E t \in tasks : t.op = "timer" /\ t.due > now) /\ Sleep

\* Each user sends a command after the previous one of that user was
\* answered; the two users' handlers and timers run in any order.  The first
\* user browses, configures and waits for a file until the timer runs, the
\* second starts an upload, sends a file or cancels.
SpecUsers == InitUsers /\ [][NextUsers]_vars

(***************************************************************************)
(* search and info, and all commands of a configured and an unconfigured   *)
(* user                                                                    *)
(***************************************************************************)

\* What the server does with POST /api/fs/search: the request raises, or it
\* is answered with an HTTP status and, in the body, a code and the entries.
SearchReply(kind, status, code, content) ==
    [kind |-> kind, status |-> status, code |-> code, content |-> content]

\* AlistClient.search_files: the entries when status and code are 200, the
\* empty list in every other case (lines 136-145).
ClientSearchFiles(reply) ==
    IF reply.kind = "exception" THEN << >>
    ELSE IF reply.status = 200 /\ reply.code = 200 THEN reply.content
    ELSE << >>

\* The observation of a search or info step.
QueryEvent(op, user_id, out, arg, reply) ==
    [op |-> op, user |-> user_id, out |-> out, arg |-> arg, reply |-> reply]

\* /alist search <keyword> up to the await of client.search_files (lines
\* 1180-1200)
SearchStart(user_id, keyword) ==
    LET user_config == GetUserConfig(webui, userFiles, user_id) IN
    IF ~Truthy(keyword)
    THEN /\ Observe(QueryEvent("search", user_id, "no_keyword", keyword, None), None)
         /\ UNCHANGED <<sideVars, confVars, cacheVars, now, nav, tasks>>
    ELSE IF ~ValidateConfig(user_config)
    THEN /\ Observe(QueryEvent("search", user_id, "config_missing", keyword, None),
                    None)
         /\ UNCHANGED <<sideVars, confVars, cacheVars, now, nav, tasks>>
    ELSE /\ tasks' = tasks \cup {Task(tasks, "search", user_id, keyword, SLASH, None,
                                      user_config, FALSE)}
         /\ Observe(QueryEvent("search", user_id, "wait", keyword, None), None)
         /\ UNCHANGED <<sideVars, confVars, cacheVars, now, nav>>

\* The message search ends with: the results when the client returned
\* entries, "nothing found" when it returned none (lines 1200-1223).
SearchAnswer(files) == IF files # << >> THEN "results" ELSE "not_found"

\* /alist search after client.search_files returned (lines 1200-1223)
SearchFinish(t, reply) ==
    /\ t \in tasks
    /\ t.op = "search"
    /\ tasks' = tasks \ {t}
    /\ Observe(QueryEvent("search", t.user, SearchAnswer(ClientSearchFiles(reply)),
                          t.arg, reply), None)
    /\ UNCHANGED <<sideVars, confVars, cacheVars, now, nav>>

\* /alist info <path> up to the await of client.get_file_info (lines 1235-1255)
InfoStart(user_id, path) ==
    LET user_config == GetUserConfig(webui, userFiles, user_id) IN
    IF ~Truthy(path)
    THEN /\ Observe(QueryEvent("info", user_id, "no_path", path, None), None)
         /\ UNCHANGED <<sideVars, confVars, cacheVars, now, nav, tasks>>
    ELSE IF ~ValidateConfig(user_config)
    THEN /\ Observe(QueryEvent("info", user_id, "config_missing", path, None), None)
         /\ UNCHANGED <<sideVars, confVars, cacheVars, now, nav, tasks>>
    ELSE /\ tasks' = tasks \cup {Task(tasks, "info", user_id, path, path, None,
                                      user_config, FALSE)}
         /\ Observe(QueryEvent("info", user_id, "wait", path, None), None)
         /\ UNCHANGED <<sideVars, confVars, cacheVars, now, nav>>

\* /alist info after client.get_file_info returned file_info, None or an
\* entry, and, for a file, get_download_url answered (lines 1255-1287)
InfoFinish(t, file_info) ==
    /\ t \in tasks
    /\ t.op = "info"
    /\ tasks' = tasks \ {t}
    /\ Observe(QueryEvent("info", t.user,
                          IF file_info = None THEN "not_found" ELSE "shown",
                          t.arg, file_info), None)
    /\ UNCHANGED <<sideVars, confVars, cacheVars, now, nav>>

\* The settings of the administrator: no default server, the cache enabled.
WebuiCommands ==
    [enable_cache |-> TRUE, allowed_extensions |-> [str |-> <<".", "a">>]]

\* The server's answers to a search.
SearchReplies ==
    { SearchReply("exception", 0, 0, << >>),
      SearchReply("answer", 500, 0, << >>),
      SearchReply("answer", 200, 500, << >>),
      SearchReply("answer", 200, 200, << >>),
      SearchReply("answer", 200, 200, <<FileD>>) }

CommandLsArgs == { SLASH, <<"1">>, <<"2">> }
CommandDownloadArgs == { <<"2">>, <<"/", "d">> }
CommandListAnswers == { None, ListData(<<DirA, FileD>>) }
CommandInfoAnswers == { None, FileD, DirA }
KEYWORD == <<"k">>

\* The first user has typed "config set alist_url x"; the second has
\* configured nothing, and there is no default server.
InitCommands ==
    /\ webui = WebuiCommands
    /\ userFiles = ConfigSetResult(<< >>, U1, "alist_url", URL_X).files
    /\ cache = << >>
    /\ now = 0
    /\ nav = << >>
    /\ tasks = {}
    /\ ev = NoEvent
    /\ scen = 0
    /\ lastSet = << >>
    /\ putSince = {}
    /\ upload = << >>
    /\ tempFiles = {}
    /\ waitId = [u \in Users |-> 0]

\* Both users type every command, each after the answer to the previous one.
NextCommands ==
    \/ \E u \in Users, a \in CommandLsArgs : Inflight = {} /\ LsStart(u, a)
    \/ \E t \in tasks, r \in CommandListAnswers : LsFinish(t, r)
    \/ \E u \in Users : Inflight = {} /\ QuitStart(u)
    \/ \E t \in tasks, r \in CommandListAnswers : QuitFinish(t, r)
    \/ \E u \in Users : Inflight = {} /\ SearchStart(u, KEYWORD)
    \/ \E t \in tasks, r \in SearchReplies : SearchFinish(t, r)
    \/ \E u \in Users : Inflight = {} /\ InfoStart(u, <<"/", "d">>)
    \/ \E t \in tasks, i \in CommandInfoAnswers : InfoFinish(t, i)
    \/ \E u \in Users, a \in CommandDownloadArgs : Inflight = {} /\ DownloadStart(u, a)
    \/ \E t \in tasks, o \in LinkOutcomes : DownloadLinked(t, o)
    \/ \E t \in tasks, o \in DownloadOutcomes : DownloadRun(t, o)
    \/ \E u \in Users : Inflight = {} /\ waitId[u] < MaxUserStarts /\ UploadStart(u)
    \/ \E t \in tasks : UploadArm(t)
    \/ \E u \in Users : Inflight = {} /\ UploadCancel(u)

SpecCommands == InitCommands /\ [][NextCommands]_vars

(***************************************************************************)
(* ls with the cache enabled or disabled, as time passes                   *)
(***************************************************************************)

\* The cache switched off by the administrator.
WebuiCommandsNoCache == [WebuiCommands EXCEPT !.enable_cache = FALSE]

\* The cache directory at start: empty, or with a listing of "/" the user
\* received while the cache was enabled.
StartCaches ==
    { << >>, SetCache(<< >>, 0, URL_X, SLASH, U1, ListData(<<FileD>>)) }

CachedLsArgs == { SLASH, <<"/", "a">>, <<"1">> }
CachedListAnswers == { None, ListData(<< >>), ListData(<<DirA, FileD>>) }

\* Steps of the clock of SpecLsCache.
MaxLsSleeps == 2

\* More than half of the time a listing stays in the cache passes.
LsSleep ==
    /\ tasks = {}
    /\ now < MaxLsSleeps * (DefaultCacheDuration \div 2 + 1)
    /\ now' = now + DefaultCacheDuration \div 2 + 1
    /\ Observe([op |-> "sleep", user |-> << >>, out |-> "slept"], None)
    /\ UNCHANGED <<confVars, cacheVars, nav, tasks, sideVars>>

InitLsCache ==
    /\ webui \in {WebuiCommands, WebuiCommandsNoCache}
    /\ userFiles = ConfigSetResult(<< >>, U1, "alist_url", URL_X).files
    /\ cache \in StartCaches
    /\ now = 0
    /\ nav = << >>
    /\ tasks = {}
    /\ ev = NoEvent
    /\ scen = 0
    /\ lastSet = << >>
    /\ putSince = {}
    /\ upload = << >>
    /\ tempFiles = {}
    /\ waitId = [u \in Users |-> 0]

NextLsCache ==
    \/ \E a \in CachedLsArgs : tasks = {} /\ LsStart(U1, a)
    \/ \E t \in tasks, r \in CachedListAnswers : LsFinish(t, r)
    \/ LsSleep

\* One user lists directories, one command at a time, while listings age.
SpecLsCache == InitLsCache /\ [][NextLsCache]_vars

(***************************************************************************)
(* Properties of upload mode                                               *)
(***************************************************************************)

\* The largest upload the default setting admits, in bytes.
MaxUploadBytes == DefaultMaxUploadSize * 1024 * 1024

\* An upload whose file went to the server: the put is on its way or answered.
PutInvoked(t) == t.op = "upload" /\ t.stage \in {"put", "succeeded", "refresh"}

\* C11: a file or image larger than the upload limit never reaches the put
\* request; the attempt answers "too large" and leaves the navigation state,
\* the upload state and the cache as they were.
C11_OversizeUploadIsRefused ==
    /\ [](\A t \in tasks : PutInvoked(t) => t.size <= MaxUploadBytes)
    /\ [][\A t \in tasks :
             (t.op = "upload" /\ t.stage = "fetch" /\ t.size > MaxUploadBytes
                 /\ t \notin tasks' /\ ev'.out \notin {"error", "unobtainable"})
             => /\ ev'.op = "upload_file"
                /\ ev'.out = "too_large"
                /\ tasks' = tasks \ {t}
                /\ nav' = nav
                /\ upload' = upload
                /\ cache' = cache]_vars

\* An oversize file was refused while the user stays in upload mode.
C11_Witness ==
    /\ ev.op = "upload_file"
    /\ ev.out = "too_large"
    /\ UploadOf(upload, ev.user).waiting
    /\ Inflight = {}

\* C13: the timer of an upload start comes due 600 seconds after it was set
\* and leaves the user out of upload mode when it runs; a user in upload mode
\* eventually leaves it; a file or image of a user who is not in upload mode
\* starts no upload and changes nothing.
C13_UploadWaitTimesOut ==
    /\ [][(ev'.op = "upload_arm")
             => \E t \in tasks' \ tasks :
                   t.op = "timer" /\ t.user = ev'.user /\ t.due = now + 600]_vars
    /\ [][(ev'.op = "timer")
             => /\ \E t \in tasks \ tasks' : t.op = "timer" /\ now >= t.due
                /\ ~UploadOf(upload', ev'.user).waiting]_vars
    /\ [][\A u \in Users :
             (ev'.op = "attach" /\ ev'.user = u /\ ~UploadOf(upload, u).waiting)
             => /\ ev'.out = "ignored"
                /\ tasks' = tasks
                /\ nav' = nav
                /\ cache' = cache
                /\ UploadOf(upload', u) = UploadOf(upload, u)]_vars
    /\ \A u \in Users :
          UploadOf(upload, u).waiting ~> ~UploadOf(upload, u).waiting

\* The timer ended an upload mode in which nothing was sent, and a file that
\* came afterwards was ignored.
C13_Witness ==
    /\ ev.op = "attach"
    /\ ev.out = "ignored"
    /\ waitId[ev.user] = 1
    /\ now >= 600
    /\ tasks = {}

\* C14: a timer that runs after the upload mode it was set for is over,
\* ended or replaced by a later start, changes nothing of the user's upload
\* state.
C14_LateTimerIsNoOp ==
    [][\A u \in Users :
          (ev'.op = "timer" /\ ev'.user = u
              /\ (IF ev'.wait # waitId[u] THEN TRUE ELSE ~UploadOf(upload, u).waiting))
          => UploadOf(upload', u) = UploadOf(upload, u)]_vars

\* The listing as the session shows it: directories first, then files, each
\* in the order of the answer, cut after max entries.
IsDirEntry(f) == f.is_dir
IsFileEntry(f) == ~f.is_dir
DirsThenFiles(l) == SelectSeq(l, IsDirEntry) \o SelectSeq(l, IsFileEntry)
Shown(l, max) ==
    SubSeq(DirsThenFiles(l), 1, IF Len(l) < max THEN Len(l) ELSE max)

\* C15 as stated: once the listing requested after a successful put is
\* answered or has failed, the user's items are the new listing of the target
\* directory, the target directory is the current one and the user is out of
\* upload mode.
C15_RefreshShowsTargetDirectory ==
    [][\A u \in Users :
          (ev'.op = "upload_file" /\ ev'.user = u
              /\ ev'.out \in {"refreshed", "refresh_failed"})
          => /\ ev'.result # None
             /\ "list" \in DOMAIN ev'.result.content
             /\ NavOf(nav', u).items = Shown(ev'.result.content.list, 2)
             /\ NavOf(nav', u).current_path = ev'.path
             /\ ~UploadOf(upload', u).waiting]_vars

\* C15: after a successful put the upload state is reset and the target
\* directory is asked from the server, not from the cache; when the server
\* answers with entries they become the user's items and the target the
\* current path; when it does not answer or answers with no entries the
\* navigation state stays as it was.  The cache is neither read nor written.
C15_RefreshFromServerWhenAnswered ==
    [][\A u \in Users :
          (ev'.op = "upload_file" /\ ev'.user = u)
          => /\ ev'.out = "cleared"
                  => /\ ~UploadOf(upload', u).waiting
                     /\ \E t \in tasks' : /\ t.op = "upload"
                                          /\ t.stage = "refresh"
                                          /\ t.path = ev'.path
                     /\ cache' = cache
             /\ (ev'.out = "refreshed" /\ ev'.entered)
                  => /\ NavOf(nav', u).items = Shown(ev'.result.content.list, 2)
                     /\ NavOf(nav', u).current_path = ev'.path
                     /\ cache' = cache
                     /\ upload' = upload
             /\ (ev'.out = "refresh_failed"
                   \/ (ev'.out = "refreshed" /\ ~ev'.entered))
                  => /\ NavOf(nav', u) = NavOf(nav, u)
                     /\ cache' = cache
                     /\ upload' = upload]_vars

\* A put into /a succeeded while the cache held an older, empty listing of
\* /a; the server's answer became the items.
C15_Witness ==
    /\ ev.op = "upload_file"
    /\ ev.out = "refreshed"
    /\ ev.entered
    /\ ev.path = <<"/", "a">>
    /\ NavOf(nav, ev.user).items = <<DirB, DirA>>
    /\ \E k \in DOMAIN cache : cache[k].data = ListData(<< >>)

\* A step that hands a listing to the session: ls or the refresh after an
\* upload with entries to show, or quit answered with a list.
Installs(e) ==
    /\ e.op \in {"ls", "quit", "upload_file"}
    /\ e.out \in {"listed", "cached", "refreshed"}
    /\ IF e.op = "quit" THEN TRUE ELSE e.entered

\* C16: whenever ls, quit or the refresh after an upload hands a listing to
\* the session, the user's items are the directories of that listing in their
\* order followed by its files in their order, cut to the display limit; no
\* other step changes the items.
C16_ItemsAreDirsThenFilesCut ==
    [][\A u \in Users :
          /\ (ev'.op # "init" /\ ev'.op # "sleep" /\ ev'.user = u /\ Installs(ev'))
                => NavOf(nav', u).items =
                       Shown(ev'.result.content.list,
                             GetWebuiConfig(webui, "max_display_files", 20))
          /\ NavOf(nav', u).items # NavOf(nav, u).items
                => (ev'.user = u /\ Installs(ev'))]_vars

\* Three entries, a file first, came back on quit: two directories are shown.
C16_Witness ==
    /\ ev.op = "quit"
    /\ ev.out = "listed"
    /\ ev.result = ListData(<<FileD, DirB, DirA>>)
    /\ NavOf(nav, ev.user).items = <<DirB, DirA>>

(***************************************************************************)
(* Properties of download and of the numbered commands                     *)
(***************************************************************************)

\* C12: a download of an entry whose size exceeds the download limit ends
\* with "too large" before the link is requested, before the GET and before
\* a temporary file exists; no handler of it ever waits on the network, and
\* the refusing step changes nothing of the navigation state, the upload
\* state, the cache or the temporary files.
C12_OversizeDownloadIsRefused ==
    /\ [](\A t \in tasks :
             t.op \in DownloadCalls
             => t.item.size <= DefaultMaxDownloadSize * 1024 * 1024)
    /\ [][\A t \in tasks :
             (t.op = "download" /\ t \notin tasks'
                 /\ t.item.size > DefaultMaxDownloadSize * 1024 * 1024)
             => /\ ev'.op = "download"
                /\ ev'.out = "too_large"
                /\ tasks' = tasks \ {t}
                /\ tempFiles' = tempFiles
                /\ nav' = nav
                /\ upload' = upload
                /\ cache' = cache]_vars

\* The file of 50 MiB + 1 byte, chosen by its number, was refused.
C12_Witness ==
    /\ ev.op = "download"
    /\ ev.out = "too_large"
    /\ ev.item = FileF
    /\ ev.arg = <<"3">>
    /\ tasks = {}

\* C21: a download whose link request gets no link, or whose GET is answered
\* with a status other than 200, ends with a reported failure; the step
\* creates no temporary file, schedules no clean-up and sends no file.
C21_FailedTransferLeavesNoFile ==
    [][\A t \in tasks :
          (t \notin tasks' /\ ev'.op = "download"
              /\ IF t.op = "download_url" THEN ev'.out = "no_link"
                 ELSE t.op = "download_get" /\ ev'.out = "http_error")
          => /\ tasks' = tasks \ {t}
             /\ tempFiles' = tempFiles
             /\ ev'.out # "sent"]_vars

\* The GET of a started download was answered with an error status and the
\* downloads directory is empty.
C21_Witness ==
    /\ ev.op = "download"
    /\ ev.out = "http_error"
    /\ ev.item = FileD
    /\ tempFiles = {}
    /\ tasks = {}

\* What "ls <n>" and "download <n>" answer before anything is awaited.
NumberedOuts == {"invalid_index", "wait", "cached", "download", "is_dir", "preparing"}

\* C17: for a user with a server configured, "ls <n>" and "download <n>" with
\* n outside 1..len(items) answer "invalid index"; the step starts no handler
\* (no request to the server), does not touch the cache and leaves the user's
\* current path, items and parent paths as they were.
C17_InvalidIndexChangesNothing ==
    [][\A u \in Users :
          (ev'.op \in {"ls", "download"} /\ ev'.user = u
              /\ ev'.out \in NumberedOuts
              /\ IsDigit(ev'.arg)
              /\ DigitsToInt(ev'.arg) \notin 1..Len(NavOf(nav, u).items))
          => /\ ev'.out = "invalid_index"
             /\ tasks' = tasks
             /\ cache' = cache
             /\ lastSet' = lastSet
             /\ tempFiles' = tempFiles
             /\ NavOf(nav', u) = NavOf(nav, u)]_vars

\* "download 4" against three items, with a listing in the cache.
C17_Witness ==
    /\ ev.op = "download"
    /\ ev.out = "invalid_index"
    /\ ev.arg = <<"4">>
    /\ Len(NavOf(nav, ev.user).items) = 3
    /\ cache # << >>

\* The user's own configuration as stored, absent when nothing was stored.
StoredConfig(files, u) == IF u \in DOMAIN files THEN files[u] ELSE << >>

\* C18: a command, an attachment, a resumed handler or a timer of one user
\* leaves the navigation state, the upload state and the stored configuration
\* of every other user as they were, however the users' steps interleave.
C18_StepsOfOneUserLeaveOthersAlone ==
    [][\A a \in Users : \A b \in Users \ {a} :
          (ev'.op # "init" /\ ev'.user = a)
          => /\ NavOf(nav', b) = NavOf(nav, b)
             /\ UploadOf(upload', b) = UploadOf(upload, b)
             /\ StoredConfig(userFiles', b) = StoredConfig(userFiles, b)]_vars

\* One user's timer ran while the other user was in upload mode inside /a
\* with a configuration of their own.
C18_Witness ==
    /\ ev.op = "timer"
    /\ ev.out = "cancelled"
    /\ \E b \in Users \ {ev.user} :
          /\ UploadOf(upload, b).waiting
          /\ NavOf(nav, b).current_path = <<"/", "a">>
          /\ b \in DOMAIN userFiles

(***************************************************************************)
(* Properties of the navigation session                                    *)
(***************************************************************************)

\* The steps of "ls <number>" in which the number is resolved.
ResolvingOuts == {"invalid_index", "wait", "download", "cached"}

\* C1: for every user and every number n typed after ls, the item the command
\* works on is the n-th of the user's listed items when 1 <= n <= their count,
\* and there is none for any other n: not for 0, not beyond the end, and not
\* for any n while the user has listed nothing.
C1_ResolveIndexIsOneBased ==
    [][\A u \in Users :
          (ev'.op = "ls" /\ ev'.user = u /\ IsDigit(ev'.arg)
              /\ ev'.out \in ResolvingOuts)
          => LET n == DigitsToInt(ev'.arg)
                 items == NavOf(nav, u).items
             IN  /\ (1 <= n /\ n <= Len(items)) => ev'.item = items[n]
                 /\ ~(1 <= n /\ n <= Len(items)) => ev'.item = None
                 /\ (ev'.out = "invalid_index") <=> (ev'.item = None)]_vars

\* The fourth of five listed items was picked by its number.
C1_Witness ==
    /\ ev.op = "ls"
    /\ ev.out = "download"
    /\ ev.arg = <<"4">>
    /\ ev.item = FileD
    /\ NavOf(nav, ev.user).items = ScenarioListing

\* new is below old: without trailing slashes, new begins with old and a "/".
StrictDescendant(old, new) ==
    LET c == RStrip(old, "/")
        n == RStrip(new, "/")
    IN  /\ Len(n) > Len(c)
        /\ SubSeq(n, 1, Len(c)) = c
        /\ n[Len(c) + 1] = "/"

\* C2: whenever the navigation state is updated with a path, that path becomes
\* the current path, and the old current path is pushed on the stack of
\* parents exactly when the new path differs from it and lies below it; any
\* other update leaves the stack as it was.
C2_EnterPushesExactlyOnDescent ==
    [][\A u \in Users :
          (ev'.op \in {"ls", "quit"} /\ ev'.user = u /\ ev'.entered)
          => LET old == ev'.from
                 new == ev'.path
                 before == NavOf(nav, u).parent_paths
                 after == NavOf(nav', u)
             IN  /\ ev'.op = "ls" => old = NavOf(nav, u).current_path
                 /\ after.current_path = new
                 /\ (new # old /\ StrictDescendant(old, new))
                        => after.parent_paths = Append(before, old)
                 /\ ~(new # old /\ StrictDescendant(old, new))
                        => after.parent_paths = before]_vars

\* From /a the user went down to /a/a: /a was pushed on top of /.
C2_Witness ==
    /\ ev.op = "ls"
    /\ ev.entered
    /\ ev.from = <<"/", "a">>
    /\ ev.path = <<"/", "a", "/", "a">>
    /\ NavOf(nav, ev.user).parent_paths = <<SLASH, <<"/", "a">> >>

\* C3: quit with parents on the stack removes the last pushed one and asks the
\* server for it, touching nothing else; when the server answers with a
\* listing that path becomes the current path and nothing is pushed.  Quit
\* with an empty stack answers "already at root", asks the server nothing and
\* changes no state.
C3_QuitPopsLastPushed ==
    [][\A u \in Users :
          (ev'.op = "quit" /\ ev'.user = u)
          => LET before == NavOf(nav, u)
                 after == NavOf(nav', u)
                 stack == before.parent_paths
             IN  /\ ev'.out = "wait"
                      => /\ stack # << >>
                         /\ after.parent_paths = SubSeq(stack, 1, Len(stack) - 1)
                         /\ ev'.path = stack[Len(stack)]
                         /\ after.current_path = before.current_path
                         /\ after.items = before.items
                         /\ \E t \in tasks' \ tasks :
                               t.op = "quit" /\ t.user = u /\ t.path = stack[Len(stack)]
                 /\ ev'.out \in {"listed", "failed"}
                      => /\ \E t \in tasks \ tasks' :
                               t.op = "quit" /\ t.user = u /\ t.path = ev'.path
                         /\ after.current_path = ev'.path
                         /\ after.parent_paths = stack
                 /\ ev'.out = "already_root"
                      => /\ stack = << >>
                         /\ after = before
                         /\ tasks' = tasks
                         /\ cache' = cache
                 /\ (ev'.out \in {"wait", "already_root"} /\ stack = << >>)
                      => ev'.out = "already_root"]_vars

\* A quit from below /a came back to /a and left / on the stack.
C3_Witness ==
    /\ ev.op = "quit"
    /\ ev.out = "listed"
    /\ ev.path = <<"/", "a">>
    /\ NavOf(nav, ev.user).current_path = <<"/", "a">>
    /\ NavOf(nav, ev.user).parent_paths = <<SLASH>>

\* C4: in the session ls /, ls 2, quit, quit started by a user who has listed
\* nothing yet, the answer to ls / with three directories and two files gives
\* the items 1..5 with the directories first; once ls 2 is answered the user
\* is in the second directory and the stack is exactly <</>>; once quit is
\* answered the user is back in / with an empty stack; the second quit answers
\* "already at root" without asking the server and changes nothing.
C4_ScenarioSession ==
    LET s == NavOf(nav, ScenarioUser) IN
    /\ scen = 2 => /\ s.items = ScenarioListing
                   /\ s.current_path = SLASH
                   /\ s.parent_paths = << >>
    /\ scen = 4 => /\ s.current_path = <<"/", "b">>
                   /\ s.parent_paths = <<SLASH>>
    /\ scen = 6 => /\ s.current_path = SLASH
                   /\ s.parent_paths = << >>
    /\ scen = 7 => /\ s.current_path = SLASH
                   /\ s.parent_paths = << >>
    /\ scen # 8

\* C20: a user's items always come from a listing obtained for the user's
\* present current path: a step that changes the current path or the items
\* of a user handles a listing of the server or of the cache for that user,
\* and leaves the current path at the listed path and the items at that
\* listing as the session shows it.
C20_ItemsBelongToCurrentPath ==
    [][\A u \in Users :
          (\/ NavOf(nav', u).current_path # NavOf(nav, u).current_path
           \/ NavOf(nav', u).items # NavOf(nav, u).items)
          => /\ ev'.op \in {"ls", "quit", "upload_file"}
             /\ ev'.user = u
             /\ ev'.out \in {"listed", "cached", "refreshed"}
             /\ NavOf(nav', u).current_path = ev'.path
             /\ NavOf(nav', u).items =
                    Shown(ev'.result.content.list,
                          GetWebuiConfig(webui, "max_display_files", 20))]_vars

\* C22 as stated: when the listing requested by quit fails, the user's
\* current path and items are as before the command and the path quit was
\* going back to is still the last of the parent paths.
C22_FailedQuitKeepsStack ==
    [][\A u \in Users :
          (ev'.op = "quit" /\ ev'.user = u /\ ev'.out = "unreachable")
          => /\ NavOf(nav', u).current_path = NavOf(nav, u).current_path
             /\ NavOf(nav', u).items = NavOf(nav, u).items
             /\ NavOf(nav', u).parent_paths # << >>
             /\ NavOf(nav', u).parent_paths[Len(NavOf(nav', u).parent_paths)]
                    = ev'.path]_vars

\* The cache c2 holds nothing c1 did not hold.
NothingWritten(c1, c2) ==
    /\ DOMAIN c2 \subseteq DOMAIN c1
    /\ \A k \in DOMAIN c2 : c2[k] = c1[k]

\* C23: an ls, by path or by number, whose listing fails leaves the user's
\* current path, items and parent paths as they were, when the request is
\* sent and when its failure is handled, and writes nothing to the cache.
C23_FailedLsChangesNothing ==
    [][\A u \in Users :
          (ev'.op = "ls" /\ ev'.user = u /\ ev'.out \in {"wait", "unreachable"})
          => /\ NavOf(nav', u) = NavOf(nav, u)
             /\ NothingWritten(cache, cache')
             /\ ev'.out = "unreachable"
                  => /\ cache' = cache
                     /\ GetCacheKey(URL_G, ev'.path, u) \notin DOMAIN cache']_vars

\* "ls 1" on the directory a/ of a listed root failed; the user is still in
\* the root with its three items.
C23_Witness ==
    /\ ev.op = "ls"
    /\ ev.out = "unreachable"
    /\ ev.arg = <<"1">>
    /\ ev.path = <<"/", "a">>
    /\ NavOf(nav, ev.user).current_path = SLASH
    /\ Len(NavOf(nav, ev.user).items) = 3
    /\ DOMAIN cache = {GetCacheKey(URL_G, SLASH, ev.user)}

(***************************************************************************)
(* Properties of the configuration layer                                   *)
(***************************************************************************)

\* The value stored in the user's file for a key ("" when there is no file).
StoredValue(u, k) == IF u \in DOMAIN userFiles THEN userFiles[u][k] ELSE << >>

\* The administrator's default for a connection key ("" when not configured).
GlobalDefault(k) ==
    CASE k = "alist_url" -> DictGet(webui, "default_alist_url", << >>)
      [] k = "username" -> DictGet(webui, "default_username", << >>)
      [] k = "password" -> DictGet(webui, "default_password", << >>)
      [] k = "token" -> DictGet(webui, "default_token", << >>)

ConnectionKeys == {"alist_url", "username", "password", "token"}

IsolationEnabled == DictGet(webui, "require_user_auth", TRUE)

\* The step just taken was a successful "config set key ..." of user u.
DidConfigSet(e, u, key) ==
    e.op = "config_set" /\ e.user = u /\ e.key = key /\ e.out = "ok"

\* C7: with isolation enabled, each of alist_url, username, password and token
\* resolves to the user's stored value when that is non-empty and to the global
\* default otherwise; right after a user's successful "config set alist_url v"
\* the resolved alist_url is v.
C7_ResolvePrefersUserValue ==
    /\ [](IsolationEnabled =>
            \A u \in Users : \A k \in ConnectionKeys :
                GetUserConfig(webui, userFiles, u)[k] =
                    IF StoredValue(u, k) # << >> THEN StoredValue(u, k)
                    ELSE GlobalDefault(k))
    /\ [][\A u \in Users :
            (IsolationEnabled /\ DidConfigSet(ev', u, "alist_url"))
                => GetUserConfig(webui', userFiles', u).alist_url = ev'.value]_vars

\* C7 witness: a user who had only the global default has just set a URL of
\* their own, and a user without a file still resolves to the global default.
C7_Witness ==
    /\ IsolationEnabled
    /\ GlobalDefault("alist_url") = URL_G
    /\ DidConfigSet(ev, U1, "alist_url")
    /\ GetUserConfig(webui, userFiles, U1).alist_url = URL_X
    /\ U2 \notin DOMAIN userFiles
    /\ GetUserConfig(webui, userFiles, U2).alist_url = URL_G

\* The administrator's display settings.
GlobalMaxDisplay == DictGet(webui, "max_display_files", DefaultMaxDisplayFiles)
GlobalExtensions ==
    ExtensionsOf(DictGet(webui, "allowed_extensions", [str |-> DefaultExtensionsStr]))
GlobalPreview == DictGet(webui, "enable_preview", TRUE)

\* C8: with isolation enabled, the effective max_display_files,
\* allowed_extensions and enable_preview of every user are the WebUI values,
\* whatever the user's file holds; a successful "config set max_display_files v"
\* leaves the effective max_display_files as it was.
C8_DisplaySettingsAreGlobal ==
    /\ [](IsolationEnabled =>
            \A u \in Users :
                LET c == GetUserConfig(webui, userFiles, u) IN
                /\ c.max_display_files = GlobalMaxDisplay
                /\ c.allowed_extensions = GlobalExtensions
                /\ c.enable_preview = GlobalPreview)
    /\ [][\A u \in Users :
            (IsolationEnabled /\ DidConfigSet(ev', u, "max_display_files"))
                => GetUserConfig(webui', userFiles', u).max_display_files
                     = GetUserConfig(webui, userFiles, u).max_display_files]_vars

\* C8 witness: a user has just stored max_display_files = 5 while the
\* administrator's value is another one.
C8_Witness ==
    /\ IsolationEnabled
    /\ DidConfigSet(ev, U1, "max_display_files")
    /\ StoredValue(U1, "max_display_files") = 5
    /\ GlobalMaxDisplay # 5

\* C9: with isolation disabled, every user resolves to one and the same
\* configuration, the one resolved when no user file exists at all.
C9_DisabledIsolationIgnoresUsers ==
    ~IsolationEnabled =>
        \A u \in Users : GetUserConfig(webui, userFiles, u) = GetUserConfig(webui, << >>, U1)

\* C9 witness: isolation is disabled and one user has stored a URL, a user name,
\* a password and a token of their own, the other user none.
C9_Witness ==
    /\ ~IsolationEnabled
    /\ \A k \in ConnectionKeys : StoredValue(U1, k) # << >> /\ StoredValue(U1, k) # GlobalDefault(k)
    /\ U2 \notin DOMAIN userFiles

SetupCompleted(files, u) == LoadConfig(files, u).setup_completed

\* C10: is_configured is true only when the user's alist_url is non-empty and
\* the stored setup_completed flag is set; the flag becomes set in exactly the
\* steps that are a successful "config set alist_url v" with v non-empty.
C10_ConfiguredNeedsUrlAndFlag ==
    /\ [](\A u \in Users :
            IsConfigured(userFiles, u) =>
                /\ StoredValue(u, "alist_url") # << >>
                /\ u \in DOMAIN userFiles /\ userFiles[u].setup_completed)
    /\ [][\A u \in Users :
            /\ (~SetupCompleted(userFiles, u) /\ SetupCompleted(userFiles', u))
                  => (DidConfigSet(ev', u, "alist_url") /\ ev'.value # << >>)
            /\ (DidConfigSet(ev', u, "alist_url") /\ ev'.value # << >>)
                  => SetupCompleted(userFiles', u)]_vars

\* C10 witness: one user is configured after setting a URL; the other has set
\* other keys only and is not.
C10_Witness ==
    /\ IsConfigured(userFiles, U1)
    /\ StoredValue(U2, "username") # << >>
    /\ StoredValue(U2, "max_display_files") = 5
    /\ ~IsConfigured(userFiles, U2)

(***************************************************************************)
(* Properties of the cache                                                 *)
(***************************************************************************)

\* The step just taken was a get_cache for a key whose latest set_cache is at
\* most max_age seconds old.
GetWithinMaxAge(e, t, ls) ==
    /\ e.op = "cache_get"
    /\ e.key \in DOMAIN ls
    /\ t - ls[e.key].at <= e.max_age

C19_ClearRemovesExactlyTheUsersRecords ==
    [][(ev'.op = "cache_clear")
          => \A k \in CacheKeyInputs :
                GetCacheKey(k[1], k[2], k[3]) \in DOMAIN cache
                => IF ev'.user = << >> \/ ev'.user = k[3]
                   THEN GetCacheKey(k[1], k[2], k[3]) \notin DOMAIN cache'
                   ELSE GetCacheKey(k[1], k[2], k[3]) \in DOMAIN cache']_vars

(***************************************************************************)
(* Properties of the stack of parent paths                                 *)
(***************************************************************************)

\* C24: an ls with a path typed by the user never changes the user's parent
\* paths; only "ls <number>" entering a directory adds to them.
C24_TypedPathKeepsStack ==
    [][\A u \in Users :
          (ev'.op = "ls" /\ ev'.user = u /\ ~IsDigit(ev'.arg))
          => NavOf(nav', u).parent_paths = NavOf(nav, u).parent_paths]_vars

\* The number of directories above the root in a path.
Depth(path) ==
    Cardinality({i \in 1..Len(RStrip(path, "/")) : RStrip(path, "/")[i] = "/"})

\* C25: every path among a user's parent paths is a proper ancestor of the
\* user's current path, and there are no more of them than the current path
\* is deep.
C25_StackHoldsProperAncestors ==
    \A u \in DOMAIN nav :
        /\ \A i \in 1..Len(nav[u].parent_paths) :
              StrictDescendant(nav[u].parent_paths[i], nav[u].current_path)
        /\ Len(nav[u].parent_paths) <= Depth(nav[u].current_path)

(***************************************************************************)
(* Upload mode always ends                                                 *)
(***************************************************************************)

\* The start of an upload mode of u that is not armed yet, or a timer of u.
TimerAhead(u) ==
    \E t \in tasks : t.user = u /\ t.op \in {"upload_started", "timer"}

\* An upload of u just failed in a way that keeps u in upload mode.
FailedAndStillWaiting(u) ==
    /\ ev.op = "upload_file"
    /\ ev.user = u
    /\ ev.out \in {"put_failed", "unobtainable", "too_large"}
    /\ UploadOf(upload, u).waiting

\* C26: while a user is in upload mode a timer of that user is set or about
\* to be set, so the user eventually leaves upload mode; in particular after
\* an upload that failed (put refused, file unobtainable, file too large) and
\* left the user waiting.
C26_UploadModeEventuallyEnds ==
    /\ [](\A u \in Users : UploadOf(upload, u).waiting => TimerAhead(u))
    /\ \A u \in Users : FailedAndStillWaiting(u) ~> ~UploadOf(upload, u).waiting
    /\ \A u \in Users : [](UploadOf(upload, u).waiting
                             => <>(~UploadOf(upload, u).waiting))

\* The put of a file was refused and the user is still in upload mode, with
\* the timer of that mode running.
C26_Witness ==
    /\ FailedAndStillWaiting(U1)
    /\ ev.out = "put_failed"
    /\ \E t \in tasks : t.op = "timer" /\ t.user = U1 /\ t.wait = waitId[U1]

(***************************************************************************)
(* Properties of overlapping commands of one user                          *)
(***************************************************************************)

\* C27: the path a download chosen by number asks the server for is the
\* directory in which the number was resolved joined with the name of the
\* item, whatever other commands of the user ran in between.
C27_DownloadPathFromResolvedDirectory ==
    [][(ev'.op = "download" /\ ev'.out = "locating")
          => ev'.path = JoinPath(ev'.from, ev'.item.name)]_vars

\* C28, for two quits: when the answers of two quits of a user that waited
\* at the same time are handled one right after the other, the user ends in
\* the upper of the two directories, as after one quit following the other.
C28_OverlappingQuitsEndAsInSequence ==
    [][\A u \in Users : \A t \in tasks :
          (/\ ev.op = "quit" /\ ev.out = "listed" /\ ev.user = u
           /\ t.op = "quit" /\ t.user = u /\ t \notin tasks'
           /\ ev'.op = "quit" /\ ev'.out = "listed"
           /\ StrictDescendant(ev'.path, ev.path) \/ StrictDescendant(ev.path, ev'.path))
          => /\ ~StrictDescendant(ev.path, NavOf(nav', u).current_path)
             /\ ~StrictDescendant(ev'.path, NavOf(nav', u).current_path)]_vars

\* A download that is writing, or has written and not yet cleaned up, its
\* temporary file.
HoldsTemp(t) == t.op \in {"download_get", "cleanup"}

\* C29: two downloads under way at the same time never use the same
\* temporary file, so the clean-up of one cannot remove the file of another.
C29_TemporaryFilesAreDistinct ==
    \A t1 \in tasks : \A t2 \in tasks \ {t1} :
        (HoldsTemp(t1) /\ HoldsTemp(t2)) => t1.temp # t2.temp

\* ---------------------------------------------------------------------------
\* The temporary file of a completed download
\* ---------------------------------------------------------------------------

\* The clean-ups that are scheduled and have not run yet.
Cleanups == {t \in tasks : t.op = "cleanup"}

\* The temporary paths a download of this model can be given.
TempPaths ==
    { TempFilePath(U1, k * CleanupDelay, n) :
          k \in 0 .. (MaxDownloadClock \div CleanupDelay),
          n \in { FileD.name, FileF.name } }

\* The step that sends the file: the file exists, its clean-up is scheduled
\* one grace period ahead and the command is over.
SentThenScheduled ==
    (ev'.op = "download" /\ ev'.out = "sent") =>
        \E c \in Cleanups' :
            /\ c \notin tasks
            /\ c.temp \in tempFiles'
            /\ c.due = now + CleanupDelay
            /\ \A t \in tasks' : t.id = c.id => t = c

\* A step that changes the set of temporary files of completed downloads
\* only removes, and what it removes is the file of a clean-up that is due.
OnlyDueCleanupDeletes ==
    \A f \in tempFiles \ tempFiles' :
        \E c \in Cleanups : c.temp = f /\ now >= c.due /\ c \notin tasks'

\* A clean-up whose file is gone or cannot be removed changes nothing but
\* its own end.
SilentNoOp ==
    (ev'.op = "cleanup" /\ ev'.out \in {"absent", "kept"}) =>
        /\ tempFiles' = tempFiles
        /\ nav' = nav /\ cache' = cache /\ upload' = upload
        /\ Pending' = Pending

\* C30: a completed download first sends its temporary file and schedules
\* the clean-up one grace period ahead without waiting for it; the file is
\* deleted only by a clean-up that is due; a clean-up that finds no file or
\* cannot remove it ends silently; and every scheduled clean-up eventually
\* runs, after which the file is gone unless its removal failed.
C30_SentThenDeletedAfterGrace ==
    /\ [][SentThenScheduled /\ OnlyDueCleanupDeletes /\ SilentNoOp]_vars
    /\ \A f \in TempPaths :
           (\E c \in Cleanups : c.temp = f)
               ~> (/\ ~ \E c \in Cleanups : c.temp = f
                   /\ \/ f \notin tempFiles
                      \/ ev.op = "cleanup" /\ ev.temp = f /\ ev.out = "kept")

\* A file was sent, a grace period passed and its clean-up has removed it.
C30_Witness ==
    /\ ev.op = "cleanup"
    /\ ev.out = "removed"
    /\ ev.temp \notin tempFiles
    /\ now >= CleanupDelay
    /\ Cleanups = {}

\* A step that creates a temporary file leaves a clean-up scheduled for it.
CreatedFileHasCleanup ==
    \A f \in tempFiles' \ tempFiles : \E c \in Cleanups' : c.temp = f

\* C31: every temporary file a download creates is eventually removed, also
\* when the transfer breaks off after the file was opened: the step that
\* creates the file leaves a clean-up scheduled for it, and every file in the
\* downloads directory is eventually gone (unless its removal itself failed).
C31_EveryTemporaryFileIsRemoved ==
    /\ [][CreatedFileHasCleanup]_vars
    /\ \A f \in TempPaths :
           (f \in tempFiles)
               ~> (\/ f \notin tempFiles
                   \/ ev.op = "cleanup" /\ ev.temp = f /\ ev.out = "kept")

\* ---------------------------------------------------------------------------
\* Listings after an upload
\* ---------------------------------------------------------------------------

\* C32: after a successful put into a directory, an ls of that directory by
\* the same user is not answered from a cache record that was written
\* before the put.
C32_NoCachedListingFromBeforeUpload ==
    [][(ev'.op = "ls" /\ ev'.out = "cached")
          => GetCacheKey(GetUserConfig(webui, userFiles, ev'.user).alist_url,
                         ev'.path, ev'.user) \notin putSince]_vars

\* ---------------------------------------------------------------------------
\* The target directory of an upload
\* ---------------------------------------------------------------------------

\* The steps that end a user's upload mode.
EndsUploadMode(e) ==
    \/ e.op = "upload_cancel" /\ e.out = "cancelled"
    \/ e.op = "timer" /\ e.out = "cancelled"
    \/ e.op = "upload_file" /\ e.out \in {"cleared", "error"}
    \/ e.op = "attach" /\ e.out = "config_missing"

\* C33: the start of upload mode stores the user's current path as the
\* target; afterwards the stored state changes only by a step that ends the
\* mode (cancel, timeout, completion, error), which resets waiting, or by a
\* new start, so that navigation leaves it alone; and an attachment is put
\* into the stored target, wherever the user is by then.
C33_UploadGoesToPathAtStart ==
    [][\A u \in Users :
          /\ (ev'.op = "upload" /\ ev'.user = u /\ ev'.out = "waiting")
                => /\ UploadOf(upload', u).waiting
                   /\ UploadOf(upload', u).target_path = NavOf(nav, u).current_path
          /\ (UploadOf(upload', u) # UploadOf(upload, u))
                => /\ ev'.user = u
                   /\ \/ ev'.op = "upload" /\ ev'.out = "waiting"
                      \/ EndsUploadMode(ev') /\ ~UploadOf(upload', u).waiting
          /\ (ev'.user = u /\ EndsUploadMode(ev')) => ~UploadOf(upload', u).waiting
          /\ (ev'.op = "attach" /\ ev'.user = u /\ ev'.out = "fetching")
                => /\ ev'.path = UploadOf(upload, u).target_path
                   /\ \E t \in tasks' \ tasks : t.op = "upload" /\ t.path = ev'.path
          /\ (ev'.op = "upload_file" /\ ev'.user = u
                   /\ ev'.out \in {"put_sent", "put_ok"})
                => \E t \in tasks : t.op = "upload" /\ t.user = u /\ t.path = ev'.path]_vars

\* Upload mode was started in "/", the user then moved to /a, and the
\* attachment has been put into "/".
C33_Witness ==
    /\ ev.op = "upload_file"
    /\ ev.out = "put_ok"
    /\ ev.path = SLASH
    /\ NavOf(nav, ev.user).current_path = <<"/", "a">>

\* ---------------------------------------------------------------------------
\* The form of the stored paths
\* ---------------------------------------------------------------------------

\* A normalized absolute path: "/" itself, or a path that starts with "/",
\* does not end with "/" and has no empty segment.
IsNormalizedAbsolute(p) ==
    /\ p # << >>
    /\ p[1] = "/"
    /\ p = SLASH \/ p[Len(p)] # "/"
    /\ \A i \in 1 .. (Len(p) - 1) : ~(p[i] = "/" /\ p[i + 1] = "/")

\* C34: every user's current path and every path on the stack of parent
\* paths is a normalized absolute path, whatever was typed after ls.
C34_StoredPathsAreNormalized ==
    \A u \in DOMAIN nav :
        /\ IsNormalizedAbsolute(nav[u].current_path)
        /\ \A i \in 1 .. Len(nav[u].parent_paths) :
               IsNormalizedAbsolute(nav[u].parent_paths[i])

\* ---------------------------------------------------------------------------
\* Commands of a user without a server address
\* ---------------------------------------------------------------------------

\* The commands that need a server.
ServerCommands == {"ls", "search", "info", "download", "quit", "upload"}

\* The user has no server address of their own and no default applies.
ServerUnset(u) == ~Truthy(GetUserConfig(webui, userFiles, u).alist_url)

\* C35: a user whose effective server address is empty gets "configuration
\* missing" from ls, search, info, download, quit and upload; the step sends
\* nothing to the server, starts no timer, neither reads nor writes the
\* cache, and leaves every user's navigation and upload state as they were.
C35_UnsetServerStopsEveryCommand ==
    [][(ev'.op \in ServerCommands /\ ServerUnset(ev'.user))
          => /\ ev'.out = "config_missing"
             /\ tasks' = tasks
             /\ cache' = cache /\ lastSet' = lastSet
             /\ nav' = nav
             /\ upload' = upload /\ waitId' = waitId
             /\ tempFiles' = tempFiles]_vars

\* The unconfigured user typed "upload" while listings of the configured
\* user are cached; the unconfigured user has no state at all.
C35_Witness ==
    /\ ev.op = "upload"
    /\ ev.user = U2
    /\ ev.out = "config_missing"
    /\ ServerUnset(U2)
    /\ cache # << >>
    /\ U2 \notin DOMAIN nav
    /\ U2 \notin DOMAIN upload
    /\ tasks = {}

\* ---------------------------------------------------------------------------
\* One slot per (server, path, user)
\* ---------------------------------------------------------------------------

\* The file a get_cache for the triple would read is the same in both caches.
SameSlot(c1, c2, triple) ==
    LET k == GetCacheKey(triple[1], triple[2], triple[3]) IN
    /\ k \in DOMAIN c1 <=> k \in DOMAIN c2
    /\ k \in DOMAIN c1 => c1[k] = c2[k]

\* C36: different (server, path, user) triples have different slots, also
\* when a component holds the separator ":": a set_cache for one triple
\* leaves what a get_cache for any other triple finds unchanged.
C36_TriplesHaveTheirOwnSlots ==
    [][ev'.op = "cache_set"
          => \A other \in SeparatorKeyInputs \ {ev'.triple} :
                 SameSlot(cache, cache', other)]_vars

\* ---------------------------------------------------------------------------
\* Commands that only ask
\* ---------------------------------------------------------------------------

\* A step of search, of info, or of download with a path.
AsksOnly(e) ==
    \/ e.op \in {"search", "info"}
    \/ e.op = "download" /\ ~IsDigit(e.arg)

\* A step of a download chosen by number: by "download <n>", or by "ls <n>"
\* on a file and the transfer that follows it.
DownloadsByNumber(e) ==
    \/ e.op = "download" /\ IsDigit(e.arg)
    \/ e.op = "ls" /\ e.out = "download"

\* C37: every step of search, info and download with a path, successful or
\* not, leaves each user's navigation state and upload state and the cache
\* as they were; a download chosen by number leaves the navigation state as
\* it was.
C37_QueriesChangeNothing ==
    [][/\ AsksOnly(ev')
            => /\ \A u \in Users : NavOf(nav', u) = NavOf(nav, u)
               /\ \A u \in Users : UploadOf(upload', u) = UploadOf(upload, u)
               /\ cache' = cache /\ lastSet' = lastSet
       /\ DownloadsByNumber(ev')
            => \A u \in Users : NavOf(nav', u) = NavOf(nav, u)]_vars

\* The file chosen by "download 2" was sent while the user has a listing,
\* a cached directory and a pending upload: all are as before.
SentWithStateInPlace ==
    /\ ev.op = "download"
    /\ ev.out = "sent"
    /\ ev.arg = <<"2">>
    /\ NavOf(nav, U1).items = <<DirA, FileD>>
    /\ cache # << >>
    /\ UploadOf(upload, U1).waiting

\* A search has found entries in the same situation.
C37_Witness ==
    /\ ev.op = "search"
    /\ ev.out = "results"
    /\ NavOf(nav, U1).items = <<DirA, FileD>>
    /\ cache # << >>
    /\ UploadOf(upload, U1).waiting

\* ---------------------------------------------------------------------------
\* ls and the cache
\* ---------------------------------------------------------------------------

CacheEnabled == GetWebuiConfig(webui, "enable_cache", TRUE)

\* The key of the listing an ls event is about.
LsKey(e) ==
    GetCacheKey(GetUserConfig(webui, userFiles, e.user).alist_url, e.path, e.user)

\* The cache holds a record for the key that is within cache_duration.
FreshRecord(k) ==
    /\ k \in DOMAIN cache
    /\ ~IsStale(cache[k].mtime, now,
                GetWebuiConfig(webui, "cache_duration", DefaultCacheDuration))

\* An ls has just looked for its listing: it was answered from the cache or
\* the server was asked.
LsLooked(e) == e.op = "ls" /\ e.out \in {"cached", "wait"}

\* C38: with the cache enabled, an ls whose listing has a fresh record is
\* answered from it without a request to the server, and the navigation
\* state becomes what a listing with that content from the server makes it;
\* otherwise the server is asked once (a stale record is removed) and its
\* answer, if any, is stored under the key of the listing.  With the cache
\* disabled ls leaves the cache as it is and always asks the server.
C38_LsUsesCacheAsConfigured ==
    [][/\ (LsLooked(ev') /\ CacheEnabled /\ FreshRecord(LsKey(ev')))
            => /\ ev'.out = "cached"
               /\ ev'.result = cache[LsKey(ev')].data
               /\ tasks' = tasks
               /\ cache' = cache
               /\ nav' = NavAfterListing(nav, cache[LsKey(ev')].data, ev'.path,
                                         GetUserConfig(webui, userFiles, ev'.user),
                                         ev'.user)
       /\ (LsLooked(ev') /\ CacheEnabled /\ ~FreshRecord(LsKey(ev')))
            => /\ ev'.out = "wait"
               /\ Cardinality(tasks' \ tasks) = 1
               /\ \A t \in tasks' \ tasks : t.op = "ls" /\ t.path = ev'.path
               /\ cache' = DictDel(cache, LsKey(ev'))
               /\ NavOf(nav', ev'.user) = NavOf(nav, ev'.user)
       /\ (ev'.op = "ls" /\ ev'.out = "listed" /\ CacheEnabled)
            => /\ LsKey(ev') \in DOMAIN cache'
               /\ cache'[LsKey(ev')] = [mtime |-> now, data |-> ev'.result]
               /\ \A k \in (DOMAIN cache \cup DOMAIN cache') \ {LsKey(ev')} :
                      k \in DOMAIN cache /\ k \in DOMAIN cache' /\ cache'[k] = cache[k]
       /\ (ev'.op = "ls" /\ ev'.out = "unreachable") => cache' = cache
       /\ (ev'.op = "ls" /\ ~CacheEnabled)
            => /\ cache' = cache
               /\ ev'.out # "cached"
               /\ LsLooked(ev') => Cardinality(tasks' \ tasks) = 1]_vars

\* With the cache enabled, "ls /" has just been answered from a record
\* written earlier and still fresh, and its entries are the user's items.
C38_Witness ==
    /\ CacheEnabled
    /\ ev.op = "ls"
    /\ ev.out = "cached"
    /\ ev.path = SLASH
    /\ now > 0
    /\ NavOf(nav, U1).items = <<FileD>>
    /\ tasks = {}

\* With the cache disabled, "ls /" has just asked the server although the
\* cache directory holds a fresh record for it.
AsksServerWithCacheOff ==
    /\ ~CacheEnabled
    /\ ev.op = "ls"
    /\ ev.out = "wait"
    /\ ev.path = SLASH
    /\ FreshRecord(LsKey(ev))

\* With the cache enabled, a stale record has just been removed and the
\* server asked.
AsksServerWhenStale ==
    /\ CacheEnabled
    /\ ev.op = "ls"
    /\ ev.out = "wait"
    /\ cache = << >>
    /\ now > DefaultCacheDuration
    /\ lastSet = << >>
    /\ putSince = {}

\* ---------------------------------------------------------------------------
\* A search that failed
\* ---------------------------------------------------------------------------

\* The search request failed: it raised, or the status or the code of the
\* answer is not 200.
SearchFailed(reply) ==
    reply.kind = "exception" \/ reply.status # 200 \/ reply.code # 200

\* C39: a search whose request failed is answered with a failure message,
\* which differs from the "nothing found" of a search that succeeded with no
\* entries.
C39_FailedSearchIsReported ==
    [][(ev'.op = "search" /\ ev'.out \notin {"wait", "config_missing", "no_keyword"})
          => IF SearchFailed(ev'.reply)
             THEN ev'.out \notin {"not_found", "results"}
             ELSE ev'.out = SearchAnswer(ev'.reply.content)]_vars

====
